---- MODULE Spec2Model ----
(***************************************************************************)
(* Antipodal Explorer: the antipode calculator, the lat/lng <-> sphere     *)
(* projection, the dig-path builder, the page wiring of app.js and the     *)
(* EarthVisualizer variants (frame-counted, delta-time, timer-stepped).    *)
(*                                                                         *)
(* Angles are fixed-point integers in units of 1e-4 degree.  Sine, cosine  *)
(* and their inverses are defined on the angles where they are exact       *)
(* (multiples of 90 degrees), so every computation below is exact.         *)
(***************************************************************************)
EXTENDS Integers, Sequences, FiniteSets, TLC

VARIABLES
    \* ---- harness of the pure functions (antipode, projection, path) ----
    inLat,        \* latitude handed to the function under test
    inLng,        \* longitude handed to the function under test
    antiOut,      \* calculateAntipode(inLat, inLng), or Null before the call
    antiBack,     \* calculateAntipode applied to antiOut, or Null
    projPos,      \* latLngTo3d(inLat, inLng, R), or Null
    pickOut,      \* pointToLatLng(projPos), or Null
    clickOut,     \* the click handler's inline asin/atan2 conversion of projPos
    pathStart,    \* start position handed to the path loop
    pathEnd,      \* end position handed to the path loop
    pathPoints,   \* the points array drawDigPath returned (scaled), or <<>>
    pathSegs,     \* the segment count of the drawDigPath that ran, 0 before
    \* ---- app.js: the page ----
    startLocation,     \* let startLocation: {lat, lng} or Null
    endLocation,       \* let endLocation: {lat, lng} or Null
    digDisabled,       \* digButton.disabled
    endPanelHidden,    \* #end-location has class hidden
    resetHidden,       \* resetButton has class hidden
    journeyHidden,     \* .journey-status has class hidden
    actionInProgress,  \* the sample buttons whose actionInProgress is true
    geoPending,        \* getCurrentPosition was called and has not answered
    locateDisabled,    \* locateButton.disabled
    startAddress,      \* startAddress.textContent
    endAddress,        \* endAddress.textContent
    requests,          \* reverseGeocode calls whose fetch has not answered
    journeyArgs,       \* arguments of the last startJourneyAnimation call
    \* ---- the EarthVisualizer instance and the browser's callback queues ----
    viz,
    \* ---- callers of the visualizer's methods ----
    lastCall,     \* per marker id, the coordinates of the latest setMarkerPosition
                  \* (journey models: arguments of the call that began the journey)
    calls         \* number of method calls the caller has made

geoVars == <<inLat, inLng, antiOut, antiBack, projPos, pickOut, clickOut,
             pathStart, pathEnd, pathPoints, pathSegs>>

\* the address lines of the page and the geocoding requests in flight; the
\* handlers of the page model leave them alone, the geocoding model has them
addressVars == <<startAddress, endAddress, requests>>

appVars == <<startLocation, endLocation, digDisabled, endPanelHidden,
             resetHidden, journeyHidden, actionInProgress, geoPending,
             locateDisabled, journeyArgs, addressVars>>

callVars == <<lastCall, calls>>

vars == <<geoVars, appVars, viz, callVars>>

\* JavaScript null, for the variables that otherwise hold a record
Null == [null |-> TRUE]

(***************************************************************************)
(* Fixed-point angles                                                      *)
(***************************************************************************)
Deg(d) == d * 10000

Abs(n) == IF n < 0 THEN -n ELSE n

Vec(a, b, c) == [x |-> a, y |-> b, z |-> c]

Origin == Vec(0, 0, 0)

Scale(k, v) == Vec(k * v.x, k * v.y, k * v.z)

IsVec(v) == DOMAIN v = {"x", "y", "z"}

(***************************************************************************)
(* Camera interpolation.  Progress and eased progress are in thousandths.  *)
(***************************************************************************)
\* Math.min(elapsed / duration, 1)
Progress(elapsed, duration) ==
    IF elapsed >= duration THEN 1000 ELSE (elapsed * 1000) \div duration

\* t < 0.5 ? 4 t^3 : 1 - (-2 t + 2)^3 / 2
easeInOutCubic(t) ==
    IF t < 500
    THEN (4 * t * t * t) \div 1000000
    ELSE 1000 - ((2000 - 2 * t) * (2000 - 2 * t) * (2000 - 2 * t)) \div 2000000

\* 1 - (1 - t)^3
easeOutCubic(t) ==
    1000 - ((1000 - t) * (1000 - t) * (1000 - t)) \div 1000000

\* the inline easing of animateCameraToPosition:
\* progress < 0.5 ? 2 p^2 : -1 + (4 - 2 p) p
easeProgress(progress) ==
    IF progress < 500
    THEN (2 * progress * progress) \div 1000
    ELSE ((4000 - 2 * progress) * progress) \div 1000 - 1000

\* Vector3.lerpVectors; a point that is kept symbolic is interpolated
\* symbolically
lerpVectors(v1, v2, alpha) ==
    IF IsVec(v1) /\ IsVec(v2)
    THEN Vec(v1.x + ((v2.x - v1.x) * alpha) \div 1000,
             v1.y + ((v2.y - v1.y) * alpha) \div 1000,
             v1.z + ((v2.z - v1.z) * alpha) \div 1000)
    ELSE IF alpha = 0 THEN v1
    ELSE IF alpha = 1000 THEN v2
    ELSE [from |-> v1, to |-> v2, alpha |-> alpha]

\* the orientation of a camera at position that looks at target
LookAt(position, target) == [lookFrom |-> position, lookAt |-> target]

\* Quaternion.slerpQuaternions
slerpQuaternions(qa, qb, t) ==
    IF t = 0 THEN qa
    ELSE IF t = 1000 THEN qb
    ELSE [from |-> qa, to |-> qb, t |-> t]

(***************************************************************************)
(* app.js: calculateAntipode                                               *)
(***************************************************************************)
calculateAntipodeNoWrap(lat, lng) ==
    [lat |-> -lat, lng |-> lng + Deg(180)]

calculateAntipodeWrapAt180(lat, lng) ==
    LET antipodalLng == lng + Deg(180)
    IN  [lat |-> -lat,
         lng |-> IF antipodalLng >= Deg(180) THEN antipodalLng - Deg(360)
                 ELSE antipodalLng]

calculateAntipode(lat, lng) ==
    LET antipodalLat == -lat
        antipodalLng == lng + Deg(180)
    IN  [lat |-> antipodalLat,
         lng |-> IF antipodalLng > Deg(180) THEN antipodalLng - Deg(360)
                 ELSE antipodalLng]

isValidCoordinatesLatOnly(lat, lng) ==
    lat >= Deg(-90) /\ lat <= Deg(90)

\* isValidCoordinates of app.js (parseFloat results are never NaN here)
isValidCoordinates(lat, lng) ==
    /\ lat >= Deg(-90) /\ lat <= Deg(90)
    /\ lng >= Deg(-180) /\ lng <= Deg(180)

(***************************************************************************)
(* Exact trigonometry on multiples of 90 degrees                           *)
(***************************************************************************)
IsRightAngle(a) == a % Deg(90) = 0

Quadrant(a) == (a \div Deg(90)) % 4

SinDeg(a) == CASE Quadrant(a) = 0 -> 0
               [] Quadrant(a) = 1 -> 1
               [] Quadrant(a) = 2 -> 0
               [] Quadrant(a) = 3 -> -1

CosDeg(a) == CASE Quadrant(a) = 0 -> 1
               [] Quadrant(a) = 1 -> 0
               [] Quadrant(a) = 2 -> -1
               [] Quadrant(a) = 3 -> 0

\* Math.asin on {-1, 0, 1}
AsinDeg(s) == Deg(90) * s

\* Math.acos on {-1, 0, 1}
AcosDeg(c) == Deg(90) * (1 - c)

\* Math.atan2(y, x) on the axis directions; atan2(0, 0) is 0
Atan2Deg(y, x) == CASE y = 0 /\ x >= 0 -> 0
                    [] y = 0 /\ x < 0  -> Deg(180)
                    [] y > 0           -> Deg(90)
                    [] y < 0           -> Deg(-90)

\* Vector3.length and Vector3.normalize on axis-aligned vectors
Length(v) == Abs(v.x) + Abs(v.y) + Abs(v.z)

IsAxisVector(v) ==
    Cardinality({c \in {"x", "y", "z"} : v[c] # 0}) = 1

Normalize(v) ==
    Vec(v.x \div Length(v), v.y \div Length(v), v.z \div Length(v))

(***************************************************************************)
(* EarthVisualizer: latLngTo3d and its two inverses                        *)
(***************************************************************************)
latLngTo3d(lat, lng, radius) ==
    LET phi   == Deg(90) - lat
        theta == lng + Deg(180)
    IN  Vec(-radius * SinDeg(phi) * CosDeg(theta),
            radius * CosDeg(phi),
            radius * SinDeg(phi) * SinDeg(theta))

pointToLatLng(point) ==
    LET direction == Normalize(point)
        lat == Deg(90) - AcosDeg(direction.y)
        lng == Atan2Deg(direction.z, direction.x)
    IN  [lat |-> lat, lng |-> IF lng > Deg(180) THEN lng - Deg(360) ELSE lng]

\* the conversion written inline in the globe click handler
clickToLatLng(hit) ==
    LET point == Normalize(hit)
    IN  [lat |-> AsinDeg(point.y), lng |-> Atan2Deg(point.z, point.x)]

(***************************************************************************)
(* drawDigPath: the loop that fills the points array.  The points are kept *)
(* multiplied by PathDen(segments) = (segments/2)^2, the common            *)
(* denominator of both interpolations, so that they stay integers.         *)
(***************************************************************************)
LinearSegments == 50

QuadraticSegments == 60

Half(segments) == segments \div 2

PathDen(segments) == Half(segments) * Half(segments)

\* (1 - segmentT) with segmentT = i / (segments / 2), times PathDen
LinearDownWrongT(segments, i) == ((segments - i) * Half(segments)) \div 2

LinearDown(segments, i) == (Half(segments) - i) * Half(segments)

\* segmentT with segmentT = (i - segments / 2) / (segments / 2), times PathDen
LinearUp(segments, i) == (i - Half(segments)) * Half(segments)

\* (1 - segmentT) * (1 - segmentT), times PathDen
QuadraticDown(segments, i) == (Half(segments) - i) * (Half(segments) - i)

\* segmentT * segmentT, times PathDen
QuadraticUp(segments, i) == (i - Half(segments)) * (i - Half(segments))

\* one loop iteration, component by component as the code writes it
LinearPoint(startPos, endPos, segments, i) ==
    IF 2 * i <= segments
    THEN Vec(LinearDown(segments, i) * startPos.x,
             LinearDown(segments, i) * startPos.y,
             LinearDown(segments, i) * startPos.z)
    ELSE Vec(LinearUp(segments, i) * endPos.x,
             LinearUp(segments, i) * endPos.y,
             LinearUp(segments, i) * endPos.z)

QuadraticPoint(startPos, endPos, segments, i) ==
    IF 2 * i <= segments
    THEN Vec(QuadraticDown(segments, i) * startPos.x,
             QuadraticDown(segments, i) * startPos.y,
             QuadraticDown(segments, i) * startPos.z)
    ELSE Vec(QuadraticUp(segments, i) * endPos.x,
             QuadraticUp(segments, i) * endPos.y,
             QuadraticUp(segments, i) * endPos.z)

\* for (let i = 0; i <= segments; i++) points.push(point)
LinearPathPoints(startPos, endPos) ==
    [k \in 1 .. LinearSegments + 1 |->
        LinearPoint(startPos, endPos, LinearSegments, k - 1)]

QuadraticPathPoints(startPos, endPos) ==
    [k \in 1 .. QuadraticSegments + 1 |->
        QuadraticPoint(startPos, endPos, QuadraticSegments, k - 1)]

(***************************************************************************)
(* Inputs of the pure functions                                            *)
(***************************************************************************)
\* latitudes: the range ends, their neighbours, the equator, the examples
LatSamples ==
    {Deg(-90), Deg(-90) + 1, -515074, -407128, -1, 0, 1, 377749, 407128,
     515074, Deg(90) - 1, Deg(90)}

\* longitudes: both ends of the range and their neighbours, the quarter
\* turns, the examples of the specification
LngSamples ==
    {Deg(-180), Deg(-180) + 1, -1224194, Deg(-90), -740060, -1278, -1, 0, 1,
     Deg(90), 1396503, Deg(180) - 1, Deg(180)}

\* positions on the spheres of radius 1 and 100 with integer coordinates
PosSamples ==
    {Vec(1, 0, 0), Vec(0, -1, 0), Vec(0, 0, 1),
     Vec(100, 0, 0), Vec(-100, 0, 0), Vec(0, 100, 0), Vec(0, 0, -100),
     Vec(60, 80, 0), Vec(-60, 0, -80), Vec(0, 28, 96), Vec(36, -48, 80)}

\* this.earthRadius of the unit-radius and of the radius-100 variants
Radii == {1, 100}

\* the page as index.html declares it, before any visualizer exists
PageInit ==
    /\ startLocation = Null
    /\ endLocation = Null
    /\ digDisabled = TRUE
    /\ endPanelHidden = TRUE
    /\ resetHidden = TRUE
    /\ journeyHidden = TRUE
    /\ actionInProgress = {}
    /\ geoPending = FALSE
    /\ locateDisabled = FALSE
    /\ startAddress = [text |-> "Not set"]
    /\ endAddress = [text |-> "Not set"]
    /\ requests = {}
    /\ journeyArgs = Null

\* one run exercises either the angle functions or the path builder
GeoInit ==
    /\ PageInit
    /\ viz = Null
    /\ lastCall = Null
    /\ calls = 0
    /\ \/ /\ inLat \in LatSamples
          /\ inLng \in LngSamples
          /\ pathStart = Vec(100, 0, 0)
          /\ pathEnd = Vec(-100, 0, 0)
       \/ /\ inLat = 0
          /\ inLng = 0
          /\ pathStart \in PosSamples
          /\ pathEnd \in PosSamples
    /\ antiOut = Null
    /\ antiBack = Null
    /\ projPos = Null
    /\ pickOut = Null
    /\ clickOut = Null
    /\ pathPoints = <<>>
    /\ pathSegs = 0

\* a caller computes the antipode of the input
CallAntipode ==
    /\ antiOut = Null
    /\ pathSegs = 0
    /\ antiOut' = calculateAntipode(inLat, inLng)
    /\ UNCHANGED <<inLat, inLng, antiBack, projPos, pickOut, clickOut,
                   pathStart, pathEnd, pathPoints, pathSegs>>
    /\ UNCHANGED <<appVars, viz, callVars>>

\* ... and the antipode of the result
CallAntipodeAgain ==
    /\ antiOut # Null
    /\ antiBack = Null
    /\ antiBack' = calculateAntipode(antiOut.lat, antiOut.lng)
    /\ UNCHANGED <<inLat, inLng, antiOut, projPos, pickOut, clickOut,
                   pathStart, pathEnd, pathPoints, pathSegs>>
    /\ UNCHANGED <<appVars, viz, callVars>>

\* a marker is projected on the globe
CallLatLngTo3d ==
    /\ projPos = Null
    /\ pathSegs = 0
    /\ IsRightAngle(inLat) /\ IsRightAngle(inLng)
    /\ \E radius \in Radii : projPos' = latLngTo3d(inLat, inLng, radius)
    /\ UNCHANGED <<inLat, inLng, antiOut, antiBack, pickOut, clickOut,
                   pathStart, pathEnd, pathPoints, pathSegs>>
    /\ UNCHANGED <<appVars, viz, callVars>>

\* onClick converts the picked point back
CallPointToLatLng ==
    /\ projPos # Null
    /\ pickOut = Null
    /\ pickOut' = pointToLatLng(projPos)
    /\ UNCHANGED <<inLat, inLng, antiOut, antiBack, projPos, clickOut,
                   pathStart, pathEnd, pathPoints, pathSegs>>
    /\ UNCHANGED <<appVars, viz, callVars>>

\* the canvas click listener converts the picked point back
CallClickToLatLng ==
    /\ projPos # Null
    /\ clickOut = Null
    /\ clickOut' = clickToLatLng(projPos)
    /\ UNCHANGED <<inLat, inLng, antiOut, antiBack, projPos, pickOut,
                   pathStart, pathEnd, pathPoints, pathSegs>>
    /\ UNCHANGED <<appVars, viz, callVars>>

\* drawDigPath of the segments = 50 variants (linear interpolation)
DrawDigPathLinear ==
    /\ pathSegs = 0
    /\ antiOut = Null /\ projPos = Null
    /\ pathPoints' = LinearPathPoints(pathStart, pathEnd)
    /\ pathSegs' = LinearSegments
    /\ UNCHANGED <<inLat, inLng, antiOut, antiBack, projPos, pickOut, clickOut,
                   pathStart, pathEnd>>
    /\ UNCHANGED <<appVars, viz, callVars>>

\* drawDigPath of the radius-100 variant (quadratic interpolation)
DrawDigPathQuadratic ==
    /\ pathSegs = 0
    /\ antiOut = Null /\ projPos = Null
    /\ pathPoints' = QuadraticPathPoints(pathStart, pathEnd)
    /\ pathSegs' = QuadraticSegments
    /\ UNCHANGED <<inLat, inLng, antiOut, antiBack, projPos, pickOut, clickOut,
                   pathStart, pathEnd>>
    /\ UNCHANGED <<appVars, viz, callVars>>

NextGeo ==
    \/ CallAntipode
    \/ CallAntipodeAgain
    \/ CallLatLngTo3d
    \/ CallPointToLatLng
    \/ CallClickToLatLng
    \/ DrawDigPathLinear
    \/ DrawDigPathQuadratic

SpecGeo == GeoInit /\ [][NextGeo]_vars

(***************************************************************************)
(* Claims about the pure functions (checked under SpecGeo)                 *)
(***************************************************************************)
InLatLng == [lat |-> inLat, lng |-> inLng]

C2_AntipodeFormula ==
    antiOut # Null =>
        /\ antiOut.lat = -inLat
        /\ antiOut.lng = IF inLng + Deg(180) <= Deg(180)
                         THEN inLng + Deg(180) ELSE inLng - Deg(180)
        /\ isValidCoordinates(antiOut.lat, antiOut.lng)
        /\ (inLat = 407128 /\ inLng = -740060) =>
               antiOut = [lat |-> -407128, lng |-> 1059940]
        /\ (inLat = 0 /\ inLng = 0) => antiOut = [lat |-> 0, lng |-> Deg(180)]
        /\ (inLat = 515074 /\ inLng = -1278) =>
               antiOut = [lat |-> -515074, lng |-> 1798722]

C2_Witness ==
    /\ antiOut # Null
    /\ inLat = 407128
    /\ inLng = -740060

\* C4: pointToLatLng and the click handler's inline conversion are the exact
\* inverse of latLngTo3d: on lat = 0, lng in {-90, 0, 90, 180} converting
\* latLngTo3d(lat, lng, R) back yields (lat, lng).
C4_PickIsInverse ==
    (inLat = 0 /\ inLng \in {Deg(-90), 0, Deg(90), Deg(180)}) =>
        /\ pickOut # Null => pickOut = InLatLng
        /\ clickOut # Null => clickOut = InLatLng

\* C5: drawDigPath returns segments + 1 points; the first is the start
\* position, the one at index segments/2 is the origin, the last is the end
\* position; the first half are scalar multiples of the start position, the
\* second half of the end position.
C5_DigPathShape ==
    pathSegs # 0 =>
        LET den == PathDen(pathSegs)
            mid == Half(pathSegs) + 1
        IN  /\ Len(pathPoints) = pathSegs + 1
            /\ pathPoints[1] = Scale(den, pathStart)
            /\ pathPoints[mid] = Origin
            /\ pathPoints[pathSegs + 1] = Scale(den, pathEnd)
            /\ \A k \in 1 .. mid :
                   \E c \in 0 .. den : pathPoints[k] = Scale(c, pathStart)
            /\ \A k \in mid .. pathSegs + 1 :
                   \E c \in 0 .. den : pathPoints[k] = Scale(c, pathEnd)

C5_Witness ==
    /\ pathSegs = QuadraticSegments
    /\ pathStart = Vec(60, 80, 0)
    /\ pathEnd = Vec(36, -48, 80)
    /\ Len(pathPoints) = QuadraticSegments + 1

(***************************************************************************)
(* Scene objects of the EarthVisualizer                                    *)
(*                                                                         *)
(* viz is the state of one EarthVisualizer instance: a record whose fields *)
(* carry the names of the instance's properties.  An object of the scene   *)
(* is a record with a uid; a new object takes the smallest uid no live     *)
(* object has, so that a replaced object and its replacement differ.       *)
(***************************************************************************)
MaxObjects == 6

MarkerIds == {"start-marker", "end-marker"}

\* this.earthRadius = 1.0, in hundredths
EarthRadius == 100

\* this.earthRadius * 1.02
MarkerRadius(earthRadius) == (earthRadius * 102) \div 100

\* latLngTo3d; where sine and cosine are not exact the point is kept as the
\* triple that determines it
SpherePoint(lat, lng, radius) ==
    IF IsRightAngle(lat) /\ IsRightAngle(lng)
    THEN latLngTo3d(lat, lng, radius)
    ELSE [lat |-> lat, lng |-> lng, radius |-> radius]

\* the instance properties that hold a scene object
RefFields == {"startMarker", "endMarker", "digLine", "travelerMesh",
              "trailMesh", "traveler", "trailGroup"}

Refs(w) ==
    (IF "markerGroups" \in DOMAIN w
     THEN {w.markerGroups[id] : id \in MarkerIds}
     ELSE {})
        \cup {w[f] : f \in RefFields \cap DOMAIN w}

LiveUids(w) == {o.uid : o \in (w.scene \cup Refs(w)) \ {Null}}

FreshUid(w) ==
    CHOOSE n \in 1 .. MaxObjects :
        /\ n \notin LiveUids(w)
        /\ \A m \in 1 .. n - 1 : m \in LiveUids(w)

SceneMarkers(w, markerID) ==
    {o \in w.scene : o.kind = "marker" /\ o.name = markerID}

(***************************************************************************)
(* Delta-time variant (earth-visualization.js, second class): markers,     *)
(* reset and the start of a journey                                        *)
(***************************************************************************)
VizInit ==
    [earthRadius |-> EarthRadius,
     scene |-> {},
     markerGroups |-> [id \in MarkerIds |-> Null],
     startMarker |-> Null,
     endMarker |-> Null,
     digLine |-> Null,
     digPath |-> Null,
     travelerMesh |-> Null,
     trailMesh |-> Null,
     travelerProgress |-> 0,
     isAnimating |-> FALSE,
     statusMessage |-> "",
     statusProgress |-> -1,
     controlsEnabled |-> TRUE,
     isCameraAnimating |-> FALSE,
     cameraPosition |-> Vec(0, 0, 300),
     controlsTarget |-> Origin,
     cameraQuaternion |-> LookAt(Vec(0, 0, 300), Origin),
     callbacksStarted |-> 0,
     callbacksRun |-> 0,
     rafs |-> <<>>,
     timers |-> <<>>]

setMarkerPositionKeepOld(w, markerID, lat, lng) ==
    LET markerGroup == [uid |-> FreshUid(w), kind |-> "marker", name |-> markerID,
                        position |-> SpherePoint(lat, lng, MarkerRadius(w.earthRadius))]
    IN  [w EXCEPT !.scene = @ \cup {markerGroup},
                  !.markerGroups[markerID] = markerGroup]

\* setMarkerPosition without the camera focus it requests for the start marker
setMarkerPosition(w, markerID, lat, lng) ==
    LET position == SpherePoint(lat, lng, MarkerRadius(w.earthRadius))
        old == w.markerGroups[markerID]
        markerGroup == [uid |-> FreshUid(w), kind |-> "marker",
                        name |-> markerID, position |-> position]
    IN  [w EXCEPT
            !.scene = (IF old # Null THEN @ \ {old} ELSE @) \cup {markerGroup},
            !.markerGroups[markerID] = markerGroup,
            !.startMarker = IF markerID = "start-marker" THEN markerGroup ELSE @,
            !.endMarker = IF markerID = "end-marker" THEN markerGroup ELSE @]

updateStatusMessage(w, message, progress) ==
    [w EXCEPT !.statusMessage = message, !.statusProgress = progress]

\* reset without the camera and rotation animations it requests
reset(w) ==
    [w EXCEPT
        !.scene = @ \ {w.startMarker, w.endMarker, w.digLine},
        !.startMarker = Null,
        !.endMarker = Null,
        !.digLine = Null,
        !.isAnimating = FALSE]

\* the two early returns of startJourneyAnimation
JourneyAccepted(w) ==
    /\ w.markerGroups["start-marker"] # Null
    /\ w.markerGroups["end-marker"] # Null
    /\ ~w.isAnimating

\* startJourneyAnimation up to this.drawDigPath(): called without arguments,
\* drawDigPath evaluates startLat.toFixed(2) and throws a TypeError, so the
\* focus and the timers that follow are never reached
startJourneyAnimation(w) ==
    IF JourneyAccepted(w)
    THEN updateStatusMessage([w EXCEPT !.isAnimating = TRUE],
                             "Preparing for the journey...", 0)
    ELSE w

\* the canvas click listener's inline antipode
clickAntipodeNoWrap(lat, lng) == [lat |-> -lat, lng |-> lng + Deg(180)]

clickAntipode(lat, lng) ==
    LET antiLat == -lat
        antiLng == lng + Deg(180)
    IN  [lat |-> antiLat,
         lng |-> IF antiLng > Deg(180) THEN antiLng - Deg(360) ELSE antiLng]

(***************************************************************************)
(* app.js: the page's event handlers                                       *)
(*                                                                         *)
(* app.js declares endLocation twice (the panel element and the state      *)
(* variable); the handlers are read with the state variable in scope, so   *)
(* endLocation.classList throws a TypeError after the assignments that     *)
(* precede it.  The camera moves a handler requests write only the camera  *)
(* and the orbit controls and are left to the visualizer models.           *)
(***************************************************************************)
\* two of the sample buttons of index.html
SampleButtons ==
    {[name |-> "New York", lat |-> 407128, lng |-> -740060],
     [name |-> "Tokyo", lat |-> 356762, lng |-> 1396503]}

\* what the search box can hold when the search button is clicked
Queries ==
    {[kind |-> "empty"], [kind |-> "text"]}
        \cup {[kind |-> "coords", lat |-> c[1], lng |-> c[2]] :
                c \in {<<0, Deg(180)>>, <<Deg(-90), Deg(-180)>>,
                       <<Deg(91), 0>>, <<0, Deg(-181)>>}}

\* positions the geolocation service can report
GeoFixes == {[lat |-> 377749, lng |-> -1224194]}

\* points of the globe a click can hit
GlobeHits == {Vec(100, 0, 0), Vec(0, 0, 100), Vec(0, 0, -100), Vec(0, 100, 0)}

LatLng(lat, lng) == [lat |-> lat, lng |-> lng]

\* both markers are placed: start first, then end
PlaceMarkers(w, start, end) ==
    setMarkerPosition(setMarkerPosition(w, "start-marker", start.lat, start.lng),
                      "end-marker", end.lat, end.lng)

\* no pure-function call is in progress
GeoIdle ==
    /\ inLat = 0 /\ inLng = 0
    /\ antiOut = Null /\ antiBack = Null
    /\ projPos = Null /\ pickOut = Null /\ clickOut = Null
    /\ pathStart = Origin /\ pathEnd = Origin
    /\ pathPoints = <<>> /\ pathSegs = 0

AppInit ==
    /\ PageInit
    /\ GeoIdle
    /\ viz = VizInit
    /\ lastCall = Null
    /\ calls = 0

\* sample button click handler (the endLocation.classList.remove at its end
\* throws and is caught, the panel stays hidden)
SampleButtonPage(b) ==
    /\ b.name \notin actionInProgress
    /\ actionInProgress' = actionInProgress \cup {b.name}
    /\ startLocation' = LatLng(b.lat, b.lng)
    /\ endLocation' = calculateAntipode(b.lat, b.lng)
    /\ viz' = PlaceMarkers(viz, startLocation', endLocation')
    /\ digDisabled' = FALSE
    /\ UNCHANGED <<endPanelHidden, resetHidden, journeyHidden, geoPending,
                   journeyArgs>>
    /\ UNCHANGED locateDisabled
    /\ UNCHANGED <<geoVars, callVars>>

\* the handler in the page model
SampleButtonClick(b) ==
    SampleButtonPage(b) /\ UNCHANGED addressVars

\* the 500 ms timer of the finally block
SampleButtonTimeout(b) ==
    /\ b.name \in actionInProgress
    /\ actionInProgress' = actionInProgress \ {b.name}
    /\ UNCHANGED <<startLocation, endLocation, digDisabled, endPanelHidden,
                   resetHidden, journeyHidden, geoPending, journeyArgs, viz>>
    /\ UNCHANGED <<locateDisabled, addressVars>>
    /\ UNCHANGED <<geoVars, callVars>>

\* processLocation with a location name override (no await before the markers)
processLocation(start) ==
    /\ startLocation' = start
    /\ endLocation' = calculateAntipode(start.lat, start.lng)
    /\ viz' = PlaceMarkers(viz, startLocation', endLocation')
    /\ digDisabled' = FALSE
    /\ UNCHANGED <<endPanelHidden, resetHidden, journeyHidden,
                   actionInProgress, geoPending, journeyArgs>>

\* search button click handler: an empty query returns before the try block;
\* every other run disables the button and its finally block enables it
\* again before the handler ends (processLocation with a name does not wait
\* for anything).  lastCall keeps the query of the click.
LocatePage(q) ==
    /\ CASE q.kind = "coords" /\ isValidCoordinates(q.lat, q.lng) ->
                processLocation(LatLng(q.lat, q.lng))
         [] q.kind = "text" -> processLocation(LatLng(407128, -740060))
         [] OTHER -> UNCHANGED <<startLocation, endLocation, digDisabled,
                                 endPanelHidden, resetHidden, journeyHidden,
                                 actionInProgress, geoPending, journeyArgs,
                                 viz>>
    /\ locateDisabled' = IF q.kind = "empty" THEN locateDisabled ELSE FALSE
    /\ lastCall' = [op |-> "locate", query |-> q]
    /\ UNCHANGED <<geoVars, calls>>

\* the handler in the page model
LocateClick(q) ==
    LocatePage(q) /\ UNCHANGED addressVars

\* current-location button click handler
CurrentLocationClick ==
    /\ ~geoPending
    /\ geoPending' = TRUE
    /\ UNCHANGED <<startLocation, endLocation, digDisabled, endPanelHidden,
                   resetHidden, journeyHidden, actionInProgress, journeyArgs,
                   viz>>
    /\ UNCHANGED <<locateDisabled, addressVars>>
    /\ UNCHANGED <<geoVars, callVars>>

\* getCurrentPosition success callback
GeolocationPage(fix) ==
    /\ geoPending
    /\ geoPending' = FALSE
    /\ startLocation' = LatLng(fix.lat, fix.lng)
    /\ endLocation' = calculateAntipode(fix.lat, fix.lng)
    /\ viz' = PlaceMarkers(viz, startLocation', endLocation')
    /\ endPanelHidden' = FALSE
    /\ digDisabled' = FALSE
    /\ UNCHANGED <<resetHidden, journeyHidden, actionInProgress, journeyArgs>>
    /\ UNCHANGED locateDisabled
    /\ UNCHANGED <<geoVars, callVars>>

\* the callback in the page model
GeolocationSuccess(fix) ==
    GeolocationPage(fix) /\ UNCHANGED addressVars

\* getCurrentPosition error callback
GeolocationError ==
    /\ geoPending
    /\ geoPending' = FALSE
    /\ UNCHANGED <<startLocation, endLocation, digDisabled, endPanelHidden,
                   resetHidden, journeyHidden, actionInProgress, journeyArgs,
                   viz>>
    /\ UNCHANGED <<locateDisabled, addressVars>>
    /\ UNCHANGED <<geoVars, callVars>>

\* dig button click handler
DigClick ==
    /\ ~digDisabled
    /\ IF startLocation = Null \/ endLocation = Null
       THEN UNCHANGED <<appVars, viz>>
       ELSE /\ journeyHidden' = FALSE
            /\ resetHidden' = FALSE
            /\ journeyArgs' = [start |-> startLocation, end |-> endLocation]
            /\ viz' = startJourneyAnimation(viz)
            /\ UNCHANGED <<startLocation, endLocation, digDisabled,
                           endPanelHidden, actionInProgress, geoPending>>
    /\ UNCHANGED <<locateDisabled, addressVars>>
    /\ UNCHANGED <<geoVars, callVars>>

\* reset button click handler (endLocation.classList.add throws on null: the
\* statements after it do not run)
ResetPage ==
    /\ ~resetHidden
    /\ viz' = reset(viz)
    /\ startLocation' = Null
    /\ endLocation' = Null
    /\ UNCHANGED <<digDisabled, endPanelHidden, resetHidden, journeyHidden,
                   actionInProgress, geoPending, journeyArgs>>
    /\ UNCHANGED locateDisabled
    /\ UNCHANGED <<geoVars, callVars>>

\* the handler in the page model
ResetClick ==
    ResetPage /\ UNCHANGED addressVars

\* canvas click listener of the visualizer, then the page's
\* 'location-selected' listener
GlobePage(hit) ==
    /\ ~viz.isAnimating
    /\ LET picked == clickToLatLng(hit)
           anti == clickAntipode(picked.lat, picked.lng)
       IN  /\ viz' = PlaceMarkers(viz, picked, anti)
           /\ startLocation' = picked
           /\ endLocation' = anti
    /\ digDisabled' = FALSE
    /\ UNCHANGED <<endPanelHidden, resetHidden, journeyHidden,
                   actionInProgress, geoPending, journeyArgs>>
    /\ UNCHANGED locateDisabled
    /\ UNCHANGED <<geoVars, callVars>>

\* the listeners in the page model
GlobeClick(hit) ==
    GlobePage(hit) /\ UNCHANGED addressVars

NextApp ==
    \/ \E b \in SampleButtons : SampleButtonClick(b)
    \/ \E b \in SampleButtons : SampleButtonTimeout(b)
    \/ \E q \in Queries : LocateClick(q)
    \/ CurrentLocationClick
    \/ \E fix \in GeoFixes : GeolocationSuccess(fix)
    \/ GeolocationError
    \/ DigClick
    \/ ResetClick
    \/ \E hit \in GlobeHits : GlobeClick(hit)

SpecApp == AppInit /\ [][NextApp]_vars

(***************************************************************************)
(* Claims about the page (checked under SpecApp)                           *)
(***************************************************************************)
\* q is the point diametrically opposite p
Antipodal(p, q) ==
    /\ q.lat = -p.lat
    /\ (q.lng - p.lng - Deg(180)) % Deg(360) = 0
    /\ isValidCoordinates(q.lat, q.lng)

\* the marker registered under markerID is in the scene, at loc
MarkerAt(markerID, loc) ==
    LET markerGroup == viz.markerGroups[markerID]
    IN  /\ markerGroup # Null
        /\ markerGroup \in viz.scene
        /\ markerGroup.position =
               SpherePoint(loc.lat, loc.lng, MarkerRadius(viz.earthRadius))

\* C3: after every action that selects a location (sample button, coordinate
\* search, geolocation success, globe click) endLocation is
\* calculateAntipode(startLocation) and the end marker is at that antipode of
\* the start marker; every journey the dig button starts runs between a
\* point and its antipode.
C3_EndIsAntipode ==
    /\ startLocation # Null =>
           /\ endLocation = calculateAntipode(startLocation.lat, startLocation.lng)
           /\ Antipodal(startLocation, endLocation)
           /\ MarkerAt("start-marker", startLocation)
           /\ MarkerAt("end-marker", endLocation)
    /\ journeyArgs # Null => Antipodal(journeyArgs.start, journeyArgs.end)

C3_Witness ==
    /\ journeyArgs # Null
    /\ journeyArgs.start = LatLng(0, Deg(90))
    /\ journeyArgs.end = LatLng(0, Deg(-90))
    /\ startLocation = LatLng(377749, -1224194)
    /\ MarkerAt("end-marker", LatLng(-377749, 575806))

\* C30: a coordinate search whose latitude is outside [-90, 90] or whose
\* longitude is outside [-180, 180] changes nothing: startLocation,
\* endLocation, the markers (the whole visualizer) and the dig button are as
\* before the click, and the search button is enabled when the handler ends.
C30_InvalidSearchRejected ==
    [][(/\ lastCall' # lastCall
        /\ lastCall'.query.kind = "coords"
        /\ \/ lastCall'.query.lat < Deg(-90) \/ lastCall'.query.lat > Deg(90)
           \/ lastCall'.query.lng < Deg(-180) \/ lastCall'.query.lng > Deg(180))
           => /\ UNCHANGED <<startLocation, endLocation, digDisabled, viz>>
              /\ ~locateDisabled']_vars

\* an invalid search was made after a location had been selected
C30_Witness ==
    /\ lastCall # Null
    /\ lastCall.query = [kind |-> "coords", lat |-> 0, lng |-> Deg(-181)]
    /\ startLocation = LatLng(0, Deg(180))
    /\ endLocation = LatLng(0, 0)
    /\ ~digDisabled
    /\ ~locateDisabled
    /\ MarkerAt("start-marker", startLocation)

\* C34: after the reset button's click handler has run the page is back in
\* its initial state: startLocation and endLocation are null, the dig button
\* is disabled, the reset button, the end-location panel and the journey
\* status are hidden; so the dig button is enabled only while both locations
\* are set.
C34_ResetRestoresPage ==
    /\ [](~digDisabled => (startLocation # Null /\ endLocation # Null))
    /\ [][(startLocation # Null /\ startLocation' = Null) =>
              /\ endLocation' = Null
              /\ digDisabled'
              /\ resetHidden'
              /\ endPanelHidden'
              /\ journeyHidden']_vars

\* C24: while a journey is active (isAnimating true before and after the
\* step) no user action changes the start or the end marker: a step that is
\* neither the end of the journey nor a reset leaves the registered markers
\* and the scene's markers as they were.
C24_MarkersFixedDuringJourney ==
    [][(viz.isAnimating /\ viz'.isAnimating) =>
           /\ viz'.markerGroups = viz.markerGroups
           /\ viz'.startMarker = viz.startMarker
           /\ viz'.endMarker = viz.endMarker]_vars

(***************************************************************************)
(* Geocoding: the address lines and the reverseGeocode requests in flight  *)
(*                                                                         *)
(* An address text is kept with the location it was made for.  A request   *)
(* keeps its arguments and the line its caller's then-callback writes.     *)
(* Requests with the same arguments and the same callback write the same   *)
(* texts, so the set keeps one of them.                                    *)
(***************************************************************************)
\* requests that may be waiting for nominatim at one time
MaxRequests == 2

\* the inputs of the geocoding model: one sample button, a search for a
\* place name, one click on the globe
GeocodeButtons == {b \in SampleButtons : b.name = "Tokyo"}

GeocodeQueries == {q \in Queries : q.kind = "text"}

GeocodeHits == {Vec(100, 0, 0)}

NotSet == [text |-> "Not set"]

Text(kind, loc) == [text |-> kind, for |-> loc]

Request(loc, addressType, then) ==
    [lat |-> loc.lat, lng |-> loc.lng, addressType |-> addressType,
     then |-> then]

\* what the fetch of a request can bring
Outcomes == {"address", "error", "display_name", "failed"}

\* the value reverseGeocode returns
reverseGeocodeResult(r, outcome) ==
    CASE outcome = "address" -> Text("address", LatLng(r.lat, r.lng))
      [] outcome = "error" ->
             Text("Ocean or uninhabited area", LatLng(r.lat, r.lng))
      [] outcome = "display_name" -> Text("display_name", LatLng(r.lat, r.lng))
      [] OTHER -> Null

\* the line after reverseGeocode's own write and the caller's then-callback
AddressAfter(line, old, r, outcome) ==
    LET address == reverseGeocodeResult(r, outcome)
        written == IF outcome = "address" /\ r.addressType = line
                   THEN address ELSE old
    IN  IF r.then = line /\ address # Null THEN address ELSE written

\* the fetch of a request answers: reverseGeocode runs to its end and the
\* then-callback of its caller follows
Response(r, outcome) ==
    /\ r \in requests
    /\ requests' = requests \ {r}
    /\ startAddress' = AddressAfter("start-address", startAddress, r, outcome)
    /\ endAddress' = AddressAfter("end-address", endAddress, r, outcome)
    /\ UNCHANGED <<startLocation, endLocation, digDisabled, endPanelHidden,
                   resetHidden, journeyHidden, actionInProgress, geoPending,
                   locateDisabled, journeyArgs, viz>>
    /\ UNCHANGED <<geoVars, callVars>>

\* sample button click handler with its address lines
SampleButtonAddresses(b) ==
    /\ SampleButtonPage(b)
    /\ startAddress' = Text("name", startLocation')
    /\ endAddress' = Text("Antipode of name", endLocation')
    /\ requests' = requests \cup {Request(endLocation', "none", "end-address")}
    /\ Cardinality(requests') <= MaxRequests

\* search button click handler with its address lines
LocateAddresses(q) ==
    /\ LocatePage(q)
    /\ IF (q.kind = "coords" /\ isValidCoordinates(q.lat, q.lng))
              \/ q.kind = "text"
       THEN /\ startAddress' = Text("name", startLocation')
            /\ endAddress' = Text("Antipode of name", endLocation')
       ELSE UNCHANGED <<startAddress, endAddress>>
    /\ UNCHANGED requests

\* getCurrentPosition success callback with its two requests
GeolocationAddresses(fix) ==
    /\ GeolocationPage(fix)
    /\ requests' = requests
           \cup {Request(startLocation', "start-address", "none"),
                 Request(endLocation', "end-address", "none")}
    /\ Cardinality(requests') <= MaxRequests
    /\ UNCHANGED <<startAddress, endAddress>>

\* 'location-selected' listener with its address lines and two requests
GlobeAddresses(hit) ==
    /\ GlobePage(hit)
    /\ startAddress' = Text("Selected Location", startLocation')
    /\ endAddress' = Text("Antipode", endLocation')
    /\ requests' = requests
           \cup {Request(startLocation', "start-address", "start-address"),
                 Request(endLocation', "end-address", "end-address")}
    /\ Cardinality(requests') <= MaxRequests

\* reset button click handler with its address lines
ResetAddresses ==
    /\ ResetPage
    /\ startAddress' = NotSet
    /\ endAddress' = NotSet
    /\ UNCHANGED requests

NextGeocode ==
    \/ \E b \in GeocodeButtons : SampleButtonAddresses(b)
    \/ \E b \in GeocodeButtons : SampleButtonTimeout(b)
    \/ \E q \in GeocodeQueries : LocateAddresses(q)
    \/ CurrentLocationClick
    \/ \E fix \in GeoFixes : GeolocationAddresses(fix)
    \/ GeolocationError
    \/ DigClick
    \/ ResetAddresses
    \/ \E hit \in GeocodeHits : GlobeAddresses(hit)
    \/ \E r \in requests : \E outcome \in Outcomes : Response(r, outcome)

SpecGeocode == AppInit /\ [][NextGeocode]_vars

\* the line shows the address of the selected location, 'Not set' when
\* nothing is selected
Shows(line, loc) ==
    IF loc = Null THEN line = NotSet
    ELSE line # NotSet /\ line.for = loc

\* C31: once no reverseGeocode request is outstanding the two address lines
\* are those of the selected start and end locations ('Not set' after a
\* reset), and a response never changes a line to the address of a location
\* that is not the selected one
C31_AddressesCurrent ==
    /\ [](requests = {} =>
              Shows(startAddress, startLocation)
                  /\ Shows(endAddress, endLocation))
    /\ [][(requests' # requests /\ requests' \subseteq requests) =>
              /\ (startAddress' # startAddress =>
                      Shows(startAddress', startLocation'))
              /\ (endAddress' # endAddress =>
                      Shows(endAddress', endLocation'))]_vars


(***************************************************************************)
(* Marker manager: setMarkerPosition called in any order                   *)
(* (delta-time variant, and test.js whose setMarkerPosition is the same    *)
(* with earthRadius = 100)                                                 *)
(***************************************************************************)
\* this.earthRadius = 100, in hundredths
EarthRadius100 == 10000

\* coordinates handed to setMarkerPosition
MarkerLats == {Deg(-90), 0, Deg(90), 407128}

MarkerLngs == {Deg(-180), Deg(-90), 0, Deg(90), Deg(180), -740060}

MarkersInit ==
    /\ PageInit
    /\ GeoIdle
    /\ viz \in {VizInit, [VizInit EXCEPT !.earthRadius = EarthRadius100]}
    /\ lastCall = [id \in MarkerIds |-> Null]
    /\ calls = 0

SetMarkerPositionCall(markerID, lat, lng) ==
    /\ viz' = setMarkerPosition(viz, markerID, lat, lng)
    /\ lastCall' = [lastCall EXCEPT ![markerID] = LatLng(lat, lng)]
    /\ UNCHANGED <<geoVars, appVars, calls>>

NextMarkers ==
    \E markerID \in MarkerIds, lat \in MarkerLats, lng \in MarkerLngs :
        SetMarkerPositionCall(markerID, lat, lng)

SpecMarkers == MarkersInit /\ [][NextMarkers]_vars

\* C6: after any sequence of setMarkerPosition calls the scene holds exactly
\* one marker group for each id that has been set, that group is the one
\* registered in markerGroups[id], and it sits at latLngTo3d of the
\* coordinates of the latest call for that id.
C6_OneMarkerPerId ==
    /\ \A markerID \in MarkerIds :
           IF lastCall[markerID] = Null
           THEN /\ SceneMarkers(viz, markerID) = {}
                /\ viz.markerGroups[markerID] = Null
           ELSE /\ SceneMarkers(viz, markerID) = {viz.markerGroups[markerID]}
                /\ Cardinality(SceneMarkers(viz, markerID)) = 1
                /\ MarkerAt(markerID, lastCall[markerID])
    /\ viz.scene = UNION {SceneMarkers(viz, markerID) : markerID \in MarkerIds}

C6_Witness ==
    /\ lastCall["start-marker"] = LatLng(0, Deg(90))
    /\ lastCall["end-marker"] = LatLng(0, Deg(-90))
    /\ viz.markerGroups["start-marker"].uid = 3
    /\ viz.markerGroups["start-marker"].position =
           Vec(0, 0, -MarkerRadius(EarthRadius100))

(***************************************************************************)
(* The browser's callback queues                                           *)
(*                                                                         *)
(* viz.rafs are the callbacks requestAnimationFrame holds for the next     *)
(* frame, viz.timers the pending setTimeout callbacks in firing order.     *)
(* Time is relative: a timer carries the time left until it is due, an     *)
(* animation loop the time elapsed since its start (Date.now() -           *)
(* startTime), saturated at its duration.                                  *)
(***************************************************************************)
TickMs == 500

\* method calls one run makes on the visualizer
MaxCalls == 3

Min(a, b) == IF a < b THEN a ELSE b

Max(a, b) == IF a > b THEN a ELSE b

requestAnimationFrame(w, cb) == [w EXCEPT !.rafs = Append(@, cb)]

\* position.clone().normalize().multiplyScalar(distance)
Toward(position, distance) ==
    IF IsVec(position) /\ IsAxisVector(position)
    THEN Scale(distance, Normalize(position))
    ELSE [toward |-> position, distance |-> distance]

setTimeout(w, cb, delay) ==
    LET sooner == SelectSeq(w.timers, LAMBDA t : t.due <= delay)
        later == SelectSeq(w.timers, LAMBDA t : t.due > delay)
    IN  [w EXCEPT !.timers = sooner \o <<[due |-> delay, cb |-> cb]>> \o later]

\* dt milliseconds pass
AdvanceClock(w, dt) ==
    LET older(r) == IF "elapsed" \in DOMAIN r
                    THEN [r EXCEPT !.elapsed = Min(r.elapsed + dt, r.duration)]
                    ELSE r
        nearer(t) == [t EXCEPT !.due = Max(t.due - dt, 0)]
    IN  [w EXCEPT !.rafs = [i \in DOMAIN w.rafs |-> older(w.rafs[i])],
                  !.timers = [i \in DOMAIN w.timers |-> nearer(w.timers[i])]]

ClockMatters(w) ==
    \/ \E i \in DOMAIN w.rafs :
           "elapsed" \in DOMAIN w.rafs[i] /\ w.rafs[i].elapsed < w.rafs[i].duration
    \/ \E i \in DOMAIN w.timers : w.timers[i].due > 0

(***************************************************************************)
(* Frame-counted variant (earth-visualization.js, first class; test.js,    *)
(* first class, differs in the segment count)                              *)
(***************************************************************************)
\* camera.position.z of the constructor: 300 in earth-visualization.js, 3 in
\* test.js (whose earthRadius is 100 all the same)
InitialCameraFC(segments) ==
    IF segments = LinearSegments THEN Vec(0, 0, 300) ELSE Vec(0, 0, 30000)

FCInit(segments) ==
    [earthRadius |-> EarthRadius100,
     pathSegments |-> segments,
     scene |-> {},
     markerGroups |-> [id \in MarkerIds |-> Null],
     startMarker |-> Null,
     endMarker |-> Null,
     digLine |-> Null,
     traveler |-> Null,
     travelerAt |-> Null,
     trailGroup |-> Null,
     isAnimating |-> FALSE,
     controlsEnabled |-> TRUE,
     cameraPosition |-> InitialCameraFC(segments),
     cameraQuaternion |-> LookAt(InitialCameraFC(segments), Origin),
     callbacksStarted |-> 0,
     callbacksRun |-> 0,
     statusMessage |-> "",
     rafs |-> <<>>,
     timers |-> <<>>]

updateStatusMessageFC(w, message) == [w EXCEPT !.statusMessage = message]

\* animateCameraTo: the first updateCamera runs inside the call with
\* elapsed = 0 and requests the next frame
\* (every caller of this variant passes the origin as targetLookAt)
animateCameraToFC(w, targetPosition, duration, callback) ==
    requestAnimationFrame(
        [w EXCEPT !.controlsEnabled = FALSE,
                  !.callbacksStarted = IF callback # Null THEN @ + 1 ELSE @],
        [fn |-> "updateCamera", elapsed |-> 0, duration |-> duration,
         startPosition |-> w.cameraPosition,
         startRotation |-> w.cameraQuaternion,
         target |-> targetPosition,
         endQuat |-> LookAt(targetPosition, Origin),
         progress |-> 0, ease |-> 0, callback |-> callback])

animateCameraToPositionFC(w, targetPosition, duration, callback) ==
    animateCameraToFC(w, targetPosition, duration, callback)

focusOnLocationFC(w, position, duration, callback) ==
    LET targetCameraPosition == Toward(position, (w.earthRadius * 18) \div 10)
        moving == animateCameraToFC(w, targetCameraPosition, duration, callback)
        controlsWereEnabled == moving.controlsEnabled
        disabled == [moving EXCEPT !.controlsEnabled = FALSE]
    IN  IF controlsWereEnabled
        THEN setTimeout(disabled, [fn |-> "enableControls"], duration + 100)
        ELSE disabled

drawDigPathFC(w, a) ==
    LET pathGroup == [uid |-> FreshUid(w), kind |-> "path",
                      start |-> a.start, end |-> a.end]
    IN  [w EXCEPT !.scene = (@ \ {w.digLine}) \cup {pathGroup},
                  !.digLine = pathGroup]

createTravelerFC(w) ==
    LET mesh == [uid |-> FreshUid(w), kind |-> "traveler"]
    IN  [w EXCEPT !.scene = (@ \ {w.traveler}) \cup {mesh},
                  !.traveler = mesh]

\* the status the journey loop writes at a progress percentage
StatusFC(progress) ==
    CASE progress < 10 -> "Drilling through the Earth's crust..."
      [] progress >= 10 /\ progress < 30 -> "Passing through the upper mantle..."
      [] progress >= 30 /\ progress < 45 -> "Traveling through the lower mantle..."
      [] progress >= 45 /\ progress < 50 -> "Approaching the outer core..."
      [] progress = 50 -> "Reached the Earth's core!"
      [] progress > 50 /\ progress < 70 -> "Leaving the Earth's core..."
      [] progress >= 70 /\ progress < 90 -> "Passing through the lower mantle..."
      [] OTHER -> "Almost there! Drilling through the crust..."

\* one call of animateJourney.  pathIndex is kept as pathIndexNum /
\* points.length; pathSpeed = 60 / points.length adds 60 to pathIndexNum.
\* points[pathIndex] is undefined at a fractional index and copying it throws.
animateJourneyFC(w, j) ==
    LET n == w.pathSegments + 1
        index == j.pathIndexNum \div n
        progress == (index * 100) \div n
        moved == updateStatusMessageFC(
                     [w EXCEPT !.travelerAt = [path |-> j.args, index |-> index]],
                     StatusFC(progress))
        core == IF progress = 50
                THEN animateCameraToPositionFC(moved, Vec(0, 0, 35000), 1000,
                                               [fn |-> "corePause"])
                ELSE moved
        keyed == IF index \in {n \div 4, n \div 2, (3 * n) \div 4}
                 THEN animateCameraToPositionFC(core, [keyPoint |-> index],
                                                1000, Null)
                 ELSE core
        raised == j.pathIndexNum + 60
        next == IF raised >= n * n THEN (n - 1) * n ELSE raised
    IN  IF ~w.isAnimating \/ j.pathIndexNum >= n * n THEN w
        ELSE IF j.pathIndexNum % n # 0 THEN w
        ELSE IF next < (n - 1) * n
        THEN requestAnimationFrame(keyed, [j EXCEPT !.pathIndexNum = next])
        ELSE focusOnLocationFC(
                 updateStatusMessageFC(keyed, "Reached destination!"),
                 SpherePoint(j.args.end.lat, j.args.end.lng, w.earthRadius),
                 1500, [fn |-> "journeyDone"])

\* the callback startJourneyAnimation hands to the start focus
beginDigFC(w, cb) ==
    LET told == updateStatusMessageFC(w, "Beginning to dig...")
        carried == createTravelerFC(told)
        trailGroup == [uid |-> FreshUid(carried), kind |-> "trail"]
        trailed == IF carried.trailGroup = Null
                   THEN [carried EXCEPT !.trailGroup = trailGroup,
                                        !.scene = @ \cup {trailGroup}]
                   ELSE carried
    IN  animateJourneyFC(trailed, [fn |-> "animateJourney", args |-> cb.args,
                                   pathIndexNum |-> 0])

\* the callback animateJourney hands to the end focus
journeyDoneFC(w) ==
    setTimeout(
        updateStatusMessageFC(
            [w EXCEPT !.controlsEnabled = TRUE, !.isAnimating = FALSE],
            "Journey complete! You've reached the antipodal point."),
        [fn |-> "removeTraveler"], 3000)

\* callback(): callbacksRun counts the completion callbacks invoked
InvokeFC(w, callback) ==
    LET called == [w EXCEPT !.callbacksRun = @ + 1]
    IN  CASE callback = Null -> w
          [] callback # Null /\ callback.fn = "beginDig" ->
                 beginDigFC(called, callback)
          [] callback # Null /\ callback.fn = "journeyDone" ->
                 journeyDoneFC(called)
          [] callback # Null /\ callback.fn = "corePause" ->
                 setTimeout(called, [fn |-> "continuing"], 500)
          [] callback # Null /\ callback.fn = "onComplete" -> called

\* updateCamera that calls the callback on every frame
updateCameraEveryFrameFC(w, a) ==
    LET progress == Progress(a.elapsed, a.duration)
        ease == easeInOutCubic(progress)
        moved == [w EXCEPT
                     !.cameraPosition =
                         lerpVectors(a.startPosition, a.target, ease),
                     !.cameraQuaternion =
                         slerpQuaternions(a.startRotation, a.endQuat, ease)]
    IN  IF progress < 1000
        THEN InvokeFC(requestAnimationFrame(
                          moved, [a EXCEPT !.progress = progress,
                                           !.ease = ease]),
                      a.callback)
        ELSE InvokeFC(setTimeout(moved, [fn |-> "enableControls"], 100),
                      a.callback)

\* one later call of updateCamera, from a frame
updateCameraFC(w, a) ==
    LET progress == Progress(a.elapsed, a.duration)
        ease == easeInOutCubic(progress)
        moved == [w EXCEPT
                     !.cameraPosition =
                         lerpVectors(a.startPosition, a.target, ease),
                     !.cameraQuaternion =
                         slerpQuaternions(a.startRotation, a.endQuat, ease)]
    IN  IF progress < 1000
        THEN requestAnimationFrame(
                 moved, [a EXCEPT !.progress = progress, !.ease = ease])
        ELSE InvokeFC(setTimeout(moved, [fn |-> "enableControls"], 100),
                      a.callback)

startJourneyAnimationFC(w, a) ==
    LET drawn == drawDigPathFC([w EXCEPT !.isAnimating = TRUE], a)
    IN  focusOnLocationFC(
            [drawn EXCEPT !.controlsEnabled = FALSE],
            SpherePoint(a.start.lat, a.start.lng, w.earthRadius),
            1500, [fn |-> "beginDig", args |-> a])

resetFC(w) ==
    LET cleared == [w EXCEPT
                       !.scene = @ \ {w.startMarker, w.endMarker, w.digLine},
                       !.startMarker = Null,
                       !.endMarker = Null,
                       !.digLine = Null,
                       !.isAnimating = FALSE]
        homing == animateCameraToFC(cleared, Vec(0, 0, 30000), 1500, Null)
        turning == requestAnimationFrame(
                       homing, [fn |-> "animateReset", elapsed |-> 0,
                                duration |-> 1000])
    IN  [turning EXCEPT !.controlsEnabled = FALSE]

\* a callback requestAnimationFrame held is run
RunRafFC(w, r) ==
    CASE r.fn = "updateCamera" -> updateCameraFC(w, r)
      [] r.fn = "animateJourney" -> animateJourneyFC(w, r)
      [] r.fn = "animateReset" ->
             IF r.elapsed < r.duration THEN requestAnimationFrame(w, r) ELSE w

\* a timer callback is run
RunTimerFC(w, cb) ==
    CASE cb.fn = "enableControls" -> [w EXCEPT !.controlsEnabled = TRUE]
      [] cb.fn = "continuing" ->
             updateStatusMessageFC(
                 w, "Continuing journey through the inner core...")
      [] cb.fn = "removeTraveler" ->
             [w EXCEPT !.scene = @ \ {w.traveler}, !.traveler = Null]

RECURSIVE RunFrameFC(_, _)
RunFrameFC(w, queue) ==
    IF queue = <<>> THEN w
    ELSE RunFrameFC(RunRafFC(w, Head(queue)), Tail(queue))

\* start and end coordinates handed to startJourneyAnimation
JourneyArgs ==
    {[start |-> LatLng(0, 0), end |-> LatLng(0, Deg(180))],
     [start |-> LatLng(0, Deg(90)), end |-> LatLng(0, Deg(-90))]}

FCStart ==
    /\ PageInit
    /\ GeoIdle
    /\ viz \in {FCInit(QuadraticSegments), FCInit(LinearSegments)}
    /\ lastCall = Null
    /\ calls = 0

\* startJourneyAnimation is called (the dig button stays enabled during a
\* journey); lastCall keeps the arguments of the call that found no journey
\* active
StartJourneyFC(a) ==
    /\ calls < MaxCalls
    /\ calls' = calls + 1
    /\ viz' = startJourneyAnimationFC(viz, a)
    /\ lastCall' = IF viz.isAnimating THEN lastCall ELSE a
    /\ UNCHANGED <<geoVars, appVars>>

ResetFC ==
    /\ calls < MaxCalls
    /\ calls' = calls + 1
    /\ viz' = resetFC(viz)
    /\ lastCall' = Null
    /\ UNCHANGED <<geoVars, appVars>>

TickFC ==
    /\ ClockMatters(viz)
    /\ viz' = AdvanceClock(viz, TickMs)
    /\ UNCHANGED <<geoVars, appVars, callVars>>

\* the browser runs the callbacks requested for this frame, in order
FrameFC ==
    /\ viz.rafs # <<>>
    /\ viz' = RunFrameFC([viz EXCEPT !.rafs = <<>>], viz.rafs)
    /\ UNCHANGED <<geoVars, appVars, callVars>>

\* the browser runs the first due timer
TimerFC ==
    /\ viz.timers # <<>>
    /\ Head(viz.timers).due = 0
    /\ viz' = RunTimerFC([viz EXCEPT !.timers = Tail(@)], Head(viz.timers).cb)
    /\ UNCHANGED <<geoVars, appVars, callVars>>

NextFC ==
    \/ \E a \in JourneyArgs : StartJourneyFC(a)
    \/ ResetFC
    \/ TickFC
    \/ FrameFC
    \/ TimerFC

SpecFC == FCStart /\ [][NextFC]_vars

(***************************************************************************)
(* Claims about the frame-counted variant (checked under SpecFC)           *)
(***************************************************************************)
\* start-focus animations whose completion callback has not run yet
FocusCallbacksPending(w) ==
    Cardinality({i \in DOMAIN w.rafs :
                    /\ w.rafs[i].fn = "updateCamera"
                    /\ w.rafs[i].callback # Null
                    /\ w.rafs[i].callback.fn = "beginDig"})

\* animateJourney loops that hold a frame request
JourneyLoops(w) ==
    Cardinality({i \in DOMAIN w.rafs : w.rafs[i].fn = "animateJourney"})

\* C7: a second startJourneyAnimation while a journey is active is a no-op:
\* at most one start-focus callback and one animateJourney loop exist at any
\* time, and the dig path of the first journey is not replaced.
C7_SecondStartIsNoOp ==
    /\ FocusCallbacksPending(viz) + JourneyLoops(viz) <= 1
    /\ (viz.isAnimating /\ lastCall # Null /\ viz.digLine # Null) =>
           /\ viz.digLine.start = lastCall.start
           /\ viz.digLine.end = lastCall.end

\* C9: after reset() no status or progress is emitted and no traveler, trail
\* or journey object is created or moved by a callback that was scheduled
\* before the reset (lastCall is Null after a call exactly when that call
\* was reset).
C9_ResetSilencesCallbacks ==
    [][(lastCall = Null /\ calls > 0 /\ UNCHANGED callVars) =>
           /\ viz'.statusMessage = viz.statusMessage
           /\ viz'.traveler = viz.traveler
           /\ viz'.travelerAt = viz.travelerAt
           /\ viz'.trailGroup = viz.trailGroup]_vars

\* C23: in the frame-counted class the orbit controls stay disabled for the
\* whole of an active journey: isAnimating = true implies
\* controls.enabled = false in every state.
C23_ControlsOffDuringJourney ==
    viz.isAnimating => ~viz.controlsEnabled

\* C20: on every frame of a journey animateJourney reads points[pathIndex]
\* with an integer index in 0 .. points.length - 1: the index a pending
\* animateJourney frame of an active journey is about to read is a whole
\* number inside the array.
C20_IntegerPathIndex ==
    \A i \in DOMAIN viz.rafs :
        (viz.rafs[i].fn = "animateJourney" /\ viz.isAnimating) =>
            LET n == viz.pathSegments + 1
            IN  /\ viz.rafs[i].pathIndexNum % n = 0
                /\ viz.rafs[i].pathIndexNum \div n \in 0 .. n - 1

(***************************************************************************)
(* Delta-time variant: camera animations, focus, the render loop           *)
(*                                                                         *)
(* pulseMarker writes only the scale of a marker's halo and is left out.   *)
(***************************************************************************)
\* animateCameraToPosition: the first animateCamera runs inside the call with
\* elapsed = 0 and requests the next frame
animateCameraToPosition(w, targetPosition, targetLookAt, duration, callback) ==
    requestAnimationFrame(
        [w EXCEPT !.controlsEnabled = FALSE, !.isCameraAnimating = TRUE,
                  !.cameraQuaternion = LookAt(w.cameraPosition, w.controlsTarget),
                  !.callbacksStarted = IF callback # Null THEN @ + 1 ELSE @],
        [fn |-> "animateCamera", elapsed |-> 0, duration |-> duration,
         startPosition |-> w.cameraPosition,
         startTarget |-> w.controlsTarget,
         target |-> targetPosition, lookAt |-> targetLookAt,
         progress |-> 0, ease |-> 0, callback |-> callback])

\* animateCameraTo (used by reset)
animateCameraTo(w, targetPosition, targetLookAt, duration, callback) ==
    requestAnimationFrame(
        [w EXCEPT !.controlsEnabled = FALSE,
                  !.callbacksStarted = IF callback # Null THEN @ + 1 ELSE @],
        [fn |-> "updateCamera", elapsed |-> 0, duration |-> duration,
         startPosition |-> w.cameraPosition,
         startRotation |-> w.cameraQuaternion,
         target |-> targetPosition,
         endQuat |-> LookAt(targetPosition, targetLookAt),
         progress |-> 0, ease |-> 0, callback |-> callback])

\* the later definition of focusOnLocation (the one the class keeps)
focusOnLocation(w, position, duration) ==
    animateCameraToPosition(w, Toward(position, 200), position, duration, Null)

\* focusOnMarker that falls back to whatever marker exists
focusOnMarkerFallback(w, markerID, duration) ==
    LET others == {id \in MarkerIds : w.markerGroups[id] # Null}
        markerGroup == IF w.markerGroups[markerID] # Null
                       THEN w.markerGroups[markerID]
                       ELSE w.markerGroups[CHOOSE id \in others : TRUE]
    IN  IF others = {} THEN w
        ELSE animateCameraToPosition(
                 w, Toward(markerGroup.position, 250), markerGroup.position,
                 duration, [fn |-> "pulseMarker", markerID |-> markerID])

focusOnMarker(w, markerID, duration) ==
    LET markerGroup == w.markerGroups[markerID]
        markerPosition == markerGroup.position
        offset == IF IsVec(markerPosition) /\ IsAxisVector(markerPosition)
                  THEN LET away == Scale(150, Normalize(markerPosition))
                       IN  Vec(markerPosition.x + away.x,
                               markerPosition.y + away.y,
                               markerPosition.z + away.z)
                  ELSE [toward |-> markerPosition, beyond |-> 150]
        cameraPosition == IF IsVec(offset) /\ Length(offset) < w.earthRadius
                          THEN Toward(offset, (w.earthRadius * 15) \div 10)
                          ELSE offset
    IN  IF markerGroup = Null THEN w
        ELSE animateCameraToPosition(
                 w, cameraPosition, markerPosition, duration,
                 [fn |-> "pulseMarker", markerID |-> markerID])

\* setMarkerPosition with the focus it requests
setMarkerPositionAndFocus(w, markerID, lat, lng, shouldFocus) ==
    LET placed == setMarkerPosition(w, markerID, lat, lng)
    IN  IF markerID = "start-marker" /\ shouldFocus
        THEN focusOnLocation(placed, placed.markerGroups[markerID].position, 1500)
        ELSE placed

\* reset whose camera target is taken relative to the camera
resetAndHomeRelative(w) ==
    LET there == Vec(w.cameraPosition.x, w.cameraPosition.y,
                     w.cameraPosition.z + 30000)
        homing == animateCameraTo(reset(w), there, Origin, 1500, Null)
        turning == requestAnimationFrame(
                       homing, [fn |-> "animateReset", elapsed |-> 0,
                                duration |-> 1000])
    IN  [turning EXCEPT !.controlsEnabled = FALSE]

\* reset with the camera and rotation animations it requests
resetAndHome(w) ==
    LET homing == animateCameraTo(reset(w), Vec(0, 0, 30000), Origin, 1500, Null)
        turning == requestAnimationFrame(
                       homing, [fn |-> "animateReset", elapsed |-> 0,
                                duration |-> 1000])
    IN  [turning EXCEPT !.controlsEnabled = FALSE]

completeJourneyAnimation(w) ==
    IF ~w.isAnimating THEN w
    ELSE setTimeout(
             updateStatusMessage([w EXCEPT !.isAnimating = FALSE],
                                 "Journey complete!", 100),
             [fn |-> "focusEnd"], 1000)

cleanupJourneyAnimation(w) ==
    [w EXCEPT !.scene = @ \ {w.travelerMesh, w.trailMesh},
              !.travelerMesh = Null,
              !.trailMesh = Null]

\* travelerSpeed * deltaTime * 60 for one 60 Hz frame, in thousandths
TravelerStep == 5

\* the status updateJourneyProgress writes at a percentage
JourneyPhase(percentage) ==
    CASE percentage < 10 -> "Starting the dig..."
      [] percentage >= 10 /\ percentage < 40 -> "Digging through the Earth's crust..."
      [] percentage >= 40 /\ percentage < 50 -> "Approaching the Earth's core..."
      [] percentage >= 50 /\ percentage < 60 -> "Passing through the Earth's core..."
      [] percentage >= 60 /\ percentage < 90 -> "Traveling through the mantle..."
      [] percentage >= 90 /\ percentage < 100 -> "Almost there!"
      [] OTHER -> "Journey complete!"

\* updateJourneyProgress, progress in thousandths
updateJourneyProgress(w, progress) ==
    LET percentage == (progress + 5) \div 10
    IN  updateStatusMessage(w, JourneyPhase(percentage),
                            IF percentage < 100 THEN percentage ELSE 100)

\* updateDiggingAnimation: travelerProgress (in thousandths) equal to 0 is
\* falsy and makes the function return
updateDiggingAnimation(w) ==
    LET raised == Min(w.travelerProgress + TravelerStep, 1000)
    IN  IF w.digPath = Null \/ w.travelerProgress = 0 \/ w.travelerMesh = Null
        THEN w
        ELSE IF raised >= 1000
        THEN completeJourneyAnimation([w EXCEPT !.travelerProgress = raised])
        ELSE updateJourneyProgress([w EXCEPT !.travelerProgress = raised],
                                   raised)

\* animate(), the render loop: it runs in every frame
animate(w) ==
    IF w.isAnimating /\ w.travelerMesh # Null
    THEN updateDiggingAnimation(w)
    ELSE w

\* callback(): callbacksRun counts the completion callbacks invoked
\* (pulseMarker is the only one this variant reaches, and it only animates
\* the marker's halo)
Invoke(w, callback) ==
    IF callback = Null THEN w ELSE [w EXCEPT !.callbacksRun = @ + 1]

\* one later call of animateCamera (animateCameraToPosition), from a frame
animateCamera(w, a) ==
    LET progress == Progress(a.elapsed, a.duration)
        ease == easeProgress(progress)
        position == lerpVectors(a.startPosition, a.target, ease)
        target == lerpVectors(a.startTarget, a.lookAt, ease)
        moved == [w EXCEPT !.cameraPosition = position,
                           !.controlsTarget = target,
                           !.cameraQuaternion = LookAt(position, target)]
    IN  IF progress < 1000
        THEN requestAnimationFrame(
                 moved, [a EXCEPT !.progress = progress, !.ease = ease])
        ELSE Invoke([moved EXCEPT !.controlsEnabled = TRUE,
                                  !.isCameraAnimating = FALSE],
                    a.callback)

\* one later call of updateCamera (animateCameraTo), from a frame
updateCamera(w, a) ==
    LET progress == Progress(a.elapsed, a.duration)
        ease == easeOutCubic(progress)
        moved == [w EXCEPT
                     !.cameraPosition =
                         lerpVectors(a.startPosition, a.target, ease),
                     !.cameraQuaternion =
                         slerpQuaternions(a.startRotation, a.endQuat, ease)]
    IN  IF progress < 1000
        THEN requestAnimationFrame(
                 moved, [a EXCEPT !.progress = progress, !.ease = ease])
        ELSE setTimeout(moved, [fn |-> "enableControls",
                                callback |-> a.callback], 200)

\* a callback requestAnimationFrame held is run
RunRaf(w, r) ==
    CASE r.fn = "animateCamera" -> animateCamera(w, r)
      [] r.fn = "updateCamera" -> updateCamera(w, r)
      [] r.fn = "animateReset" ->
             IF r.elapsed < r.duration THEN requestAnimationFrame(w, r) ELSE w

\* a timer callback is run
RunTimer(w, cb) ==
    CASE cb.fn = "enableControls" ->
             Invoke([w EXCEPT !.controlsEnabled = TRUE], cb.callback)
      [] cb.fn = "focusEnd" ->
             setTimeout(focusOnMarker(w, "end-marker", 2000),
                        [fn |-> "cleanup"], 3000)
      [] cb.fn = "cleanup" -> cleanupJourneyAnimation(w)

RECURSIVE RunFrame(_, _)
RunFrame(w, queue) ==
    IF queue = <<>> THEN animate(w)
    ELSE RunFrame(RunRaf(w, Head(queue)), Tail(queue))

\* coordinates the callers of the delta-time variant use
DTCoords == {LatLng(0, 0), LatLng(0, Deg(90)), LatLng(0, Deg(180))}

DTInit ==
    /\ PageInit
    /\ GeoIdle
    /\ viz = VizInit
    /\ lastCall = [op |-> "none"]
    /\ calls = 0

\* a method of the visualizer is called; lastCall keeps which
Called(op) ==
    /\ calls < MaxCalls
    /\ calls' = calls + 1
    /\ lastCall' = [op |-> op]
    /\ UNCHANGED <<geoVars, appVars>>

SetMarkerDT(markerID, c) ==
    /\ viz' = setMarkerPositionAndFocus(viz, markerID, c.lat, c.lng,
                                        markerID = "start-marker")
    /\ Called("setMarkerPosition")

StartJourneyDT ==
    /\ viz' = startJourneyAnimation(viz)
    /\ Called("startJourneyAnimation")

FocusOnMarkerDT(markerID) ==
    /\ viz' = focusOnMarker(viz, markerID, 1000)
    /\ Called("focusOnMarker")

ResetDT ==
    /\ viz' = resetAndHome(viz)
    /\ Called("reset")

TickDT ==
    /\ ClockMatters(viz)
    /\ viz' = AdvanceClock(viz, TickMs)
    /\ UNCHANGED <<geoVars, appVars, callVars>>

\* an animation frame: the requested callbacks, then the render loop
FrameDT ==
    /\ viz' = RunFrame([viz EXCEPT !.rafs = <<>>], viz.rafs)
    /\ UNCHANGED <<geoVars, appVars, callVars>>

TimerDT ==
    /\ viz.timers # <<>>
    /\ Head(viz.timers).due = 0
    /\ viz' = RunTimer([viz EXCEPT !.timers = Tail(@)], Head(viz.timers).cb)
    /\ UNCHANGED <<geoVars, appVars, callVars>>

NextDT ==
    \/ \E markerID \in MarkerIds, c \in DTCoords : SetMarkerDT(markerID, c)
    \/ StartJourneyDT
    \/ \E markerID \in MarkerIds : FocusOnMarkerDT(markerID)
    \/ ResetDT
    \/ TickDT
    \/ FrameDT
    \/ TimerDT

SpecDT == DTInit /\ [][NextDT]_vars

\* a run in which reset is never called, with frames and the clock going on
NextJourneyDT ==
    \/ \E markerID \in MarkerIds, c \in DTCoords : SetMarkerDT(markerID, c)
    \/ StartJourneyDT
    \/ \E markerID \in MarkerIds : FocusOnMarkerDT(markerID)
    \/ TickDT
    \/ FrameDT

FairJourneyDT ==
    /\ DTInit
    /\ [][NextJourneyDT]_vars
    /\ WF_vars(TickDT)
    /\ WF_vars(FrameDT)

(***************************************************************************)
(* Claims about the delta-time variant                                     *)
(***************************************************************************)
\* C8: once a journey has been started and reset is not called, with frames
\* and timers firing it eventually completes: the completion status is
\* emitted and isAnimating returns to false.
C8_JourneyCompletes ==
    viz.isAnimating ~>
        (~viz.isAnimating /\ viz.statusMessage = "Journey complete!")

\* C10: after reset() returns, isAnimating is false, no start or end marker
\* is in the scene or registered, no dig path is in the scene and no traveler
\* or trail mesh is in the scene.
C10_ResetLeavesNothing ==
    lastCall = [op |-> "reset"] =>
        /\ ~viz.isAnimating
        /\ \A markerID \in MarkerIds :
               /\ SceneMarkers(viz, markerID) = {}
               /\ viz.markerGroups[markerID] = Null
        /\ viz.digLine = Null
        /\ \A o \in viz.scene : o.kind \notin {"path", "traveler", "trail"}

(***************************************************************************)
(* reset() called again and again, in both variants                        *)
(***************************************************************************)
MaxResets == 2

\* the delta-time class is the one that keeps isCameraAnimating
IsDeltaTime(w) == "isCameraAnimating" \in DOMAIN w

\* both markers placed by setMarkerPosition(id, lat, lng, false)
WithMarkers(w) ==
    setMarkerPosition(setMarkerPosition(w, "start-marker", 0, 0),
                      "end-marker", 0, Deg(180))

ResetInit ==
    /\ PageInit
    /\ GeoIdle
    /\ viz \in {VizInit, WithMarkers(VizInit),
                startJourneyAnimation(WithMarkers(VizInit)),
                FCInit(QuadraticSegments),
                WithMarkers(FCInit(QuadraticSegments))}
    /\ lastCall = [op |-> "none"]
    /\ calls = 0

ResetCall ==
    /\ calls < MaxResets
    /\ calls' = calls + 1
    /\ lastCall' = [op |-> "reset"]
    /\ viz' = IF IsDeltaTime(viz) THEN resetAndHome(viz) ELSE resetFC(viz)
    /\ UNCHANGED <<geoVars, appVars>>

TickReset ==
    /\ ClockMatters(viz)
    /\ viz' = AdvanceClock(viz, TickMs)
    /\ UNCHANGED <<geoVars, appVars, callVars>>

FrameReset ==
    /\ viz.rafs # <<>>
    /\ viz' = IF IsDeltaTime(viz)
              THEN RunFrame([viz EXCEPT !.rafs = <<>>], viz.rafs)
              ELSE RunFrameFC([viz EXCEPT !.rafs = <<>>], viz.rafs)
    /\ UNCHANGED <<geoVars, appVars, callVars>>

TimerReset ==
    /\ viz.timers # <<>>
    /\ Head(viz.timers).due = 0
    /\ viz' = IF IsDeltaTime(viz)
              THEN RunTimer([viz EXCEPT !.timers = Tail(@)],
                            Head(viz.timers).cb)
              ELSE RunTimerFC([viz EXCEPT !.timers = Tail(@)],
                              Head(viz.timers).cb)
    /\ UNCHANGED <<geoVars, appVars, callVars>>

NextReset ==
    \/ ResetCall
    \/ TickReset
    \/ FrameReset
    \/ TimerReset

SpecReset == ResetInit /\ [][NextReset]_vars

\* no marker, path or journey exists
Idle(w) ==
    /\ w.startMarker = Null
    /\ w.endMarker = Null
    /\ w.digLine = Null
    /\ ~w.isAnimating
    /\ \A o \in w.scene : o.kind \notin {"marker", "path", "traveler", "trail"}

\* every animation and timer has run out
Settled(w) == w.rafs = <<>> /\ w.timers = <<>>

\* the part of the state the claim compares
Rest(w) ==
    [startMarker |-> w.startMarker, endMarker |-> w.endMarker,
     digLine |-> w.digLine, isAnimating |-> w.isAnimating,
     controlsEnabled |-> w.controlsEnabled,
     cameraPosition |-> w.cameraPosition]

\* controls.minDistance = 1.5 and controls.maxDistance = 5 of the delta-time
\* class, in hundredths
MinDistance == 150

MaxDistance == 500

\* C27: in the delta-time class, once reset() and the camera animation it
\* starts have finished, the camera is at the default position (0, 0, 3) the
\* constructor and resetCamera() use, inside minDistance .. maxDistance.
C27_ResetCameraHome ==
    (IsDeltaTime(viz) /\ calls >= 1 /\ Settled(viz)) =>
        /\ viz.cameraPosition = VizInit.cameraPosition
        /\ Length(viz.cameraPosition) \in MinDistance .. MaxDistance

\* C11: reset() is idempotent: called when no marker, path or journey exists
\* it leaves markers, path, traveler and isAnimating as they are, and once all
\* animations have run out the state after two consecutive resets (markers,
\* path, isAnimating, controls.enabled, camera position) is the state after
\* one.
C11_ResetIdempotent ==
    /\ [][(calls' = calls + 1 /\ Idle(viz)) =>
              /\ Idle(viz')
              /\ viz'.scene = viz.scene
              /\ viz'.markerGroups = viz.markerGroups]_vars
    /\ [](calls >= 1 /\ Settled(viz) =>
              Rest(viz) = [startMarker |-> Null, endMarker |-> Null,
                           digLine |-> Null, isAnimating |-> FALSE,
                           controlsEnabled |-> TRUE,
                           cameraPosition |-> Vec(0, 0, 30000)])

C11_Witness ==
    /\ calls = 2
    /\ Settled(viz)
    /\ viz.cameraPosition = Vec(0, 0, 30000)
    /\ viz.markerGroups["start-marker"] # Null

(***************************************************************************)
(* The camera animation routines called directly, in both variants         *)
(***************************************************************************)
MaxAnimations == 2

CameraTargets == {Vec(200, 0, 0), Vec(0, 0, -200)}

CameraDurations == {1000, 2000}

\* the completion callback the caller passes
OnComplete == [fn |-> "onComplete"]

CamInit ==
    /\ PageInit
    /\ GeoIdle
    /\ viz \in {VizInit, FCInit(QuadraticSegments)}
    /\ lastCall = [op |-> "none"]
    /\ calls = 0

AnimateCameraToCall(targetPosition, duration, callback) ==
    /\ calls < MaxAnimations
    /\ calls' = calls + 1
    /\ lastCall' = [op |-> "animateCameraTo", target |-> targetPosition]
    /\ viz' = IF IsDeltaTime(viz)
              THEN animateCameraTo(viz, targetPosition, Origin, duration,
                                   callback)
              ELSE animateCameraToFC(viz, targetPosition, duration, callback)
    /\ UNCHANGED <<geoVars, appVars>>

AnimateCameraToPositionCall(targetPosition, duration, callback) ==
    /\ calls < MaxAnimations
    /\ calls' = calls + 1
    /\ lastCall' = [op |-> "animateCameraToPosition",
                    target |-> targetPosition]
    /\ viz' = IF IsDeltaTime(viz)
              THEN animateCameraToPosition(viz, targetPosition, Origin,
                                           duration, callback)
              ELSE animateCameraToPositionFC(viz, targetPosition, duration,
                                             callback)
    /\ UNCHANGED <<geoVars, appVars>>

TickCam ==
    /\ ClockMatters(viz)
    /\ viz' = AdvanceClock(viz, TickMs)
    /\ UNCHANGED <<geoVars, appVars, callVars>>

FrameCam ==
    /\ viz.rafs # <<>>
    /\ viz' = IF IsDeltaTime(viz)
              THEN RunFrame([viz EXCEPT !.rafs = <<>>], viz.rafs)
              ELSE RunFrameFC([viz EXCEPT !.rafs = <<>>], viz.rafs)
    /\ UNCHANGED <<geoVars, appVars, callVars>>

TimerCam ==
    /\ viz.timers # <<>>
    /\ Head(viz.timers).due = 0
    /\ viz' = IF IsDeltaTime(viz)
              THEN RunTimer([viz EXCEPT !.timers = Tail(@)],
                            Head(viz.timers).cb)
              ELSE RunTimerFC([viz EXCEPT !.timers = Tail(@)],
                              Head(viz.timers).cb)
    /\ UNCHANGED <<geoVars, appVars, callVars>>

NextCam ==
    \/ \E targetPosition \in CameraTargets, duration \in CameraDurations :
           \/ AnimateCameraToCall(targetPosition, duration, OnComplete)
           \/ AnimateCameraToPositionCall(targetPosition, duration, OnComplete)
    \/ TickCam
    \/ FrameCam
    \/ TimerCam

SpecCam == CamInit /\ [][NextCam]_vars

\* the camera animation loops that hold a frame request
CameraLoops(w) ==
    {i \in DOMAIN w.rafs : w.rafs[i].fn \in {"animateCamera", "updateCamera"}}

\* the loops whose next frame applies progress = 1
Finishing(w) ==
    {i \in CameraLoops(w) : w.rafs[i].elapsed >= w.rafs[i].duration}

\* the completion callbacks not yet invoked: those of the loops in flight and
\* those the delta-time animateCameraTo hands to its 200 ms timer
PendingCallbacks(w) ==
    Cardinality({i \in CameraLoops(w) : w.rafs[i].callback # Null})
        + Cardinality({i \in DOMAIN w.timers :
                          /\ "callback" \in DOMAIN w.timers[i].cb
                          /\ w.timers[i].cb.callback # Null})

\* C12: a camera animation requested while an earlier one is in flight
\* supersedes it: at most one animation loop writes the camera in any frame,
\* and the new animation starts from the camera position at the moment of
\* the call.
C12_Superseded ==
    /\ Cardinality(CameraLoops(viz)) <= 1
    /\ \A i \in CameraLoops(viz) :
           viz.rafs[i].elapsed = 0 =>
               viz.rafs[i].startPosition = viz.cameraPosition

\* C25: once every camera animation that was requested has finished, the
\* camera rests at the target of the animation requested last.
C25_LastRequestWins ==
    (calls >= 1 /\ CameraLoops(viz) = {}) =>
        viz.cameraPosition = lastCall.target

\* C13: the callback of a camera animation is invoked exactly once, never
\* inside the call that started the animation, only by a frame whose loop
\* applies progress = 1 (or by the timer that frame started), and a loop
\* that applied progress = 1 requests no further frame.
C13_CallbackOnce ==
    /\ [](viz.callbacksStarted = viz.callbacksRun + PendingCallbacks(viz))
    /\ [][calls' # calls => viz'.callbacksRun = viz.callbacksRun]_vars
    /\ [][viz'.callbacksRun > viz.callbacksRun =>
              \/ /\ viz'.rafs # viz.rafs
                 /\ viz'.callbacksRun - viz.callbacksRun
                        <= Cardinality(Finishing(viz))
                 /\ Finishing(viz') = {}
                 /\ Cardinality(CameraLoops(viz'))
                        = Cardinality(CameraLoops(viz))
                              - Cardinality(Finishing(viz))
              \/ /\ viz'.rafs = viz.rafs
                 /\ viz.timers # <<>>
                 /\ Head(viz.timers).due = 0
                 /\ viz'.callbacksRun = viz.callbacksRun + 1]_vars

C13_Witness ==
    /\ calls = 2
    /\ viz.callbacksStarted = 2
    /\ viz.callbacksRun = 2
    /\ ~IsDeltaTime(viz)

\* C14: while a camera animation loop is in flight controls.enabled is false
\* (and isCameraAnimating is true in the delta-time variant).
C14_ControlsSuspended ==
    CameraLoops(viz) # {} =>
        /\ ~viz.controlsEnabled
        /\ IsDeltaTime(viz) => viz.isCameraAnimating

\* C15: a single camera animation is at the captured start at elapsed = 0,
\* at the target at elapsed = duration, applies the eased parameter 0.5 at
\* elapsed = duration / 2, applies the same eased parameter to position and
\* to orientation or target, and its eased parameter never decreases.
C15_EasedSampling ==
    /\ [](calls = 1 =>
             /\ \A i \in CameraLoops(viz) :
                    LET r == viz.rafs[i]
                    IN  /\ r.progress = 0 => r.ease = 0
                        /\ r.progress = 500 => r.ease = 500
                        /\ viz.cameraPosition =
                               lerpVectors(r.startPosition, r.target, r.ease)
                        /\ IF r.fn = "animateCamera"
                           THEN viz.controlsTarget =
                                    lerpVectors(r.startTarget, r.lookAt, r.ease)
                           ELSE viz.cameraQuaternion =
                                    slerpQuaternions(r.startRotation,
                                                     r.endQuat, r.ease)
             /\ CameraLoops(viz) = {} => viz.cameraPosition = lastCall.target)
    /\ [][(calls = 1 /\ calls' = 1 /\ viz.rafs # <<>> /\ viz'.rafs # <<>>) =>
              viz'.rafs[1].ease >= viz.rafs[1].ease]_vars

(***************************************************************************)
(* focusOnMarker, in the delta-time class and in the first class of        *)
(* test.js                                                                 *)
(***************************************************************************)
MaxFocusCalls == 3

\* markerType.endsWith('-marker') ? markerType : `${markerType}-marker`
MarkerIdOf(markerType) ==
    CASE markerType = "start" -> "start-marker"
      [] markerType = "end" -> "end-marker"
      [] OTHER -> markerType

MarkerTypes == {"start", "end", "end-marker"}

\* focusOnMarker(markerType) of test.js's first class
focusOnMarkerFC(w, markerType) ==
    LET markerID == MarkerIdOf(markerType)
        markerGroup == w.markerGroups[markerID]
        targetPosition == Toward(markerGroup.position,
                                 (w.earthRadius * 18) \div 10)
    IN  IF markerGroup = Null THEN w
        ELSE animateCameraToPositionFC(w, targetPosition, 1000, OnComplete)

FocusInit ==
    /\ PageInit
    /\ GeoIdle
    /\ viz \in {VizInit, FCInit(LinearSegments)}
    /\ lastCall = [op |-> "none"]
    /\ calls = 0

\* setMarkerPosition(markerID, lat, lng, false)
PlaceMarkerCall(markerID, c) ==
    /\ calls < MaxFocusCalls
    /\ calls' = calls + 1
    /\ lastCall' = [op |-> "setMarkerPosition", markerID |-> markerID]
    /\ viz' = setMarkerPosition(viz, markerID, c.lat, c.lng)
    /\ UNCHANGED <<geoVars, appVars>>

FocusOnMarkerCall(markerType) ==
    /\ calls < MaxFocusCalls
    /\ calls' = calls + 1
    /\ lastCall' = [op |-> "focusOnMarker", markerID |-> MarkerIdOf(markerType)]
    /\ viz' = IF IsDeltaTime(viz)
              THEN focusOnMarker(viz, MarkerIdOf(markerType), 1000)
              ELSE focusOnMarkerFC(viz, markerType)
    /\ UNCHANGED <<geoVars, appVars>>

TickFocus ==
    /\ ClockMatters(viz)
    /\ viz' = AdvanceClock(viz, TickMs)
    /\ UNCHANGED <<geoVars, appVars, callVars>>

FrameFocus ==
    /\ viz.rafs # <<>>
    /\ viz' = IF IsDeltaTime(viz)
              THEN RunFrame([viz EXCEPT !.rafs = <<>>], viz.rafs)
              ELSE RunFrameFC([viz EXCEPT !.rafs = <<>>], viz.rafs)
    /\ UNCHANGED <<geoVars, appVars, callVars>>

TimerFocus ==
    /\ viz.timers # <<>>
    /\ Head(viz.timers).due = 0
    /\ viz' = IF IsDeltaTime(viz)
              THEN RunTimer([viz EXCEPT !.timers = Tail(@)],
                            Head(viz.timers).cb)
              ELSE RunTimerFC([viz EXCEPT !.timers = Tail(@)],
                              Head(viz.timers).cb)
    /\ UNCHANGED <<geoVars, appVars, callVars>>

NextFocus ==
    \/ PlaceMarkerCall("start-marker", LatLng(0, 0))
    \/ PlaceMarkerCall("end-marker", LatLng(0, Deg(180)))
    \/ \E markerType \in MarkerTypes : FocusOnMarkerCall(markerType)
    \/ TickFocus
    \/ FrameFocus
    \/ TimerFocus

SpecFocus == FocusInit /\ [][NextFocus]_vars

ProgressSamples == {TravelerStep * k : k \in 0 .. 200}

UpdateJourneyProgressCall(progress) ==
    /\ viz' = updateJourneyProgress(viz, progress)
    /\ lastCall' = [op |-> "updateJourneyProgress", progress |-> progress]
    /\ UNCHANGED <<geoVars, appVars, calls>>

NextStatus == \E progress \in ProgressSamples : UpdateJourneyProgressCall(progress)

SpecStatus == DTInit /\ [][NextStatus]_vars

\* the order of the phases of a journey
PhaseRank(message) ==
    CASE message = "Starting the dig..." -> 0
      [] message = "Digging through the Earth's crust..." -> 1
      [] message = "Approaching the Earth's core..." -> 2
      [] message = "Passing through the Earth's core..." -> 3
      [] message = "Traveling through the mantle..." -> 4
      [] message = "Almost there!" -> 5
      [] message = "Journey complete!" -> 6
      [] OTHER -> -1

\* C17: the phase reported is a function of the progress percentage alone
\* and never goes backwards as progress increases; the core phase is the one
\* reported at 50 percent; 'Journey complete!' is reported only when progress
\* has reached the end of the path.
C17_PhaseByProgress ==
    /\ [](lastCall.op = "updateJourneyProgress" =>
              /\ lastCall.progress = 500 =>
                     viz.statusMessage = "Passing through the Earth's core..."
              /\ viz.statusMessage = "Journey complete!" =>
                     lastCall.progress = 1000)
    /\ [][(lastCall.op = "updateJourneyProgress"
               /\ lastCall'.progress >= lastCall.progress) =>
              /\ PhaseRank(viz'.statusMessage) >= PhaseRank(viz.statusMessage)
              /\ viz'.statusProgress = viz.statusProgress =>
                     viz'.statusMessage = viz.statusMessage]_vars

(***************************************************************************)
(* Timer-stepped variant (test.js, second class): the journey is a chain   *)
(* of 150 ms timers over the 21 points of the dig path                     *)
(***************************************************************************)
\* for (let i = 0; i <= 20; i++): pathPoints.length
PathPointsTS == 21

TSInit ==
    [earthRadius |-> EarthRadius100,
     scene |-> {},
     startMarker |-> Null,
     endMarker |-> Null,
     digLine |-> Null,
     isAnimating |-> FALSE,
     statusMessage |-> "",
     statusProgress |-> -1,
     earthRotation |-> [target |-> "initial", ease |-> 1000],
     endLocationHidden |-> TRUE,
     resetBtnHidden |-> TRUE,
     cameraPosition |-> Vec(0, 0, 30000),
     rafs |-> <<>>,
     timers |-> <<>>]

IsTimerStepped(w) == "earthRotation" \in DOMAIN w

\* setMarkerPosition: the group replaces the one the field holds; the earth
\* is turned towards the marker from a 100 ms timer
setMarkerPositionTS(w, markerID, lat, lng) ==
    LET field == IF markerID = "start-marker" THEN "startMarker" ELSE "endMarker"
        position == SpherePoint(lat, lng, w.earthRadius)
        removed == [w EXCEPT !.scene = @ \ {w[field]}]
        markerGroup == [uid |-> FreshUid([removed EXCEPT ![field] = Null]),
                        kind |-> "marker", name |-> markerID,
                        position |-> position]
        placed == [removed EXCEPT ![field] = markerGroup,
                                  !.scene = @ \cup {markerGroup}]
    IN  setTimeout(placed, [fn |-> "rotateEarth", markerID |-> markerID,
                            position |-> position], 100)

\* the 100 ms timer of setMarkerPosition
rotateEarthTS(w, cb) ==
    IF cb.markerID = "start-marker"
    THEN requestAnimationFrame(
             [w EXCEPT !.earthRotation = [target |-> cb.position, ease |-> 0]],
             [fn |-> "animateRotation", elapsed |-> 0, duration |-> 1000,
              target |-> cb.position])
    ELSE w

\* animateRotation and animateReset: one frame of the earth's rotation
animateRotationTS(w, r) ==
    LET progress == Progress(r.elapsed, r.duration)
        turned == [w EXCEPT !.earthRotation =
                       [target |-> r.target, ease |-> easeInOutCubic(progress)]]
    IN  IF progress < 1000 THEN requestAnimationFrame(turned, r) ELSE turned

drawDigPathTS(w, a) ==
    LET removed == [w EXCEPT !.scene = @ \ {w.digLine}, !.digLine = Null]
        line == [uid |-> FreshUid(removed), kind |-> "path",
                 start |-> a.start, end |-> a.end]
    IN  [removed EXCEPT !.digLine = line, !.scene = @ \cup {line}]

\* the status animateDigging writes at a progress percentage
StatusTS(progress) ==
    IF progress < 25 THEN "Penetrating the Earth's crust..."
    ELSE IF progress < 50 THEN "Passing through the mantle..."
    ELSE IF progress < 75 THEN "Crossing through the core..."
    ELSE "Approaching the surface..."

\* traveller.position.copy(pathPoints[index]) on the mesh the closure holds
MoveTraveller(w, traveller, index) ==
    LET mesh == {o \in w.scene : o.uid = traveller /\ o.kind = "traveller"}
    IN  [w EXCEPT !.scene = (@ \ mesh) \cup {[o EXCEPT !.at = index] : o \in mesh}]

animateDiggingSkipTS(w, d) ==
    LET progress == (d.pathIndex * 100) \div (PathPointsTS - 1)
        moved == MoveTraveller(w, d.traveller, d.pathIndex)
        shown == updateStatusMessage(moved, StatusTS(progress), progress)
    IN  IF d.pathIndex >= PathPointsTS
        THEN setTimeout(w, [fn |-> "arrive", traveller |-> d.traveller], 500)
        ELSE setTimeout(shown, [d EXCEPT !.pathIndex = @ + 2], 150)

\* one call of animateDigging; d holds the closure's traveller and pathIndex
animateDiggingTS(w, d) ==
    LET progress == (d.pathIndex * 100) \div (PathPointsTS - 1)
        moved == MoveTraveller(w, d.traveller, d.pathIndex)
        shown == updateStatusMessage(moved, StatusTS(progress), progress)
    IN  IF d.pathIndex >= PathPointsTS
        THEN setTimeout(w, [fn |-> "arrive", traveller |-> d.traveller], 500)
        ELSE setTimeout(shown, [d EXCEPT !.pathIndex = @ + 1], 150)

\* the 500 ms timer at the end of the path
arriveTS(w, cb) ==
    LET removed == [w EXCEPT
                       !.scene = {o \in @ : o.uid # cb.traveller
                                               \/ o.kind # "traveller"},
                       !.isAnimating = FALSE,
                       !.endLocationHidden = FALSE,
                       !.resetBtnHidden = FALSE]
    IN  updateStatusMessage(removed, "Arrived at your antipodal point!", 100)

startJourneyAnimationUnguardedTS(w, a) ==
    LET started == [w EXCEPT !.isAnimating = TRUE]
        marked == setMarkerPositionTS(
                      setMarkerPositionTS(started, "start-marker",
                                          a.start.lat, a.start.lng),
                      "end-marker", a.end.lat, a.end.lng)
        drawn == drawDigPathTS(marked, a)
        traveller == [uid |-> FreshUid(drawn), kind |-> "traveller", at |-> 0]
        added == [drawn EXCEPT !.scene = @ \cup {traveller}]
        shown == updateStatusMessage(added, "Starting to dig...", 0)
    IN  animateDiggingTS(shown, [fn |-> "animateDigging",
                                 traveller |-> traveller.uid, pathIndex |-> 0])

startJourneyAnimationTS(w, a) ==
    LET started == [w EXCEPT !.isAnimating = TRUE]
        marked == setMarkerPositionTS(
                      setMarkerPositionTS(started, "start-marker",
                                          a.start.lat, a.start.lng),
                      "end-marker", a.end.lat, a.end.lng)
        drawn == drawDigPathTS(marked, a)
        traveller == [uid |-> FreshUid(drawn), kind |-> "traveller", at |-> 0]
        added == [drawn EXCEPT !.scene = @ \cup {traveller}]
        shown == updateStatusMessage(added, "Starting to dig...", 0)
    IN  IF w.isAnimating THEN w
        ELSE animateDiggingTS(shown, [fn |-> "animateDigging",
                                      traveller |-> traveller.uid,
                                      pathIndex |-> 0])

resetTS(w) ==
    LET cleared == [w EXCEPT
                       !.scene = @ \ {w.startMarker, w.endMarker, w.digLine},
                       !.startMarker = Null,
                       !.endMarker = Null,
                       !.digLine = Null,
                       !.isAnimating = FALSE,
                       !.earthRotation = [target |-> "default", ease |-> 0]]
    IN  requestAnimationFrame(
            cleared, [fn |-> "animateReset", elapsed |-> 0, duration |-> 1000,
                      target |-> "default"])

RunTimerTS(w, cb) ==
    CASE cb.fn = "rotateEarth" -> rotateEarthTS(w, cb)
      [] cb.fn = "animateDigging" -> animateDiggingTS(w, cb)
      [] cb.fn = "arrive" -> arriveTS(w, cb)

RECURSIVE RunFrameTS(_, _)
RunFrameTS(w, queue) ==
    IF queue = <<>> THEN w
    ELSE RunFrameTS(animateRotationTS(w, Head(queue)), Tail(queue))

(***************************************************************************)
(* startJourneyAnimation called again: the two classes that test           *)
(* isAnimating (delta-time, timer-stepped)                                 *)
(***************************************************************************)
\* calls of startJourneyAnimation and reset one run makes
MaxStarts == 3

RestartInit ==
    /\ PageInit
    /\ GeoIdle
    /\ viz \in {WithMarkers(VizInit), TSInit}
    /\ lastCall = [op |-> "none"]
    /\ calls = 0

StartJourneyCall(a) ==
    /\ calls < MaxStarts
    /\ calls' = calls + 1
    /\ lastCall' = [op |-> "startJourneyAnimation"]
    /\ viz' = IF IsTimerStepped(viz)
              THEN startJourneyAnimationTS(viz, a)
              ELSE startJourneyAnimation(viz)
    /\ UNCHANGED <<geoVars, appVars>>

ResetJourneyCall ==
    /\ calls < MaxStarts
    /\ calls' = calls + 1
    /\ lastCall' = [op |-> "reset"]
    /\ viz' = IF IsTimerStepped(viz) THEN resetTS(viz) ELSE resetAndHome(viz)
    /\ UNCHANGED <<geoVars, appVars>>

TickRestart ==
    /\ ClockMatters(viz)
    /\ viz' = AdvanceClock(viz, TickMs)
    /\ UNCHANGED <<geoVars, appVars, callVars>>

FrameRestart ==
    /\ viz.rafs # <<>>
    /\ viz' = IF IsTimerStepped(viz)
              THEN RunFrameTS([viz EXCEPT !.rafs = <<>>], viz.rafs)
              ELSE RunFrame([viz EXCEPT !.rafs = <<>>], viz.rafs)
    /\ UNCHANGED <<geoVars, appVars, callVars>>

TimerRestart ==
    /\ viz.timers # <<>>
    /\ Head(viz.timers).due = 0
    /\ viz' = IF IsTimerStepped(viz)
              THEN RunTimerTS([viz EXCEPT !.timers = Tail(@)],
                              Head(viz.timers).cb)
              ELSE RunTimer([viz EXCEPT !.timers = Tail(@)],
                            Head(viz.timers).cb)
    /\ UNCHANGED <<geoVars, appVars, callVars>>

NextRestart ==
    \/ \E a \in JourneyArgs : StartJourneyCall(a)
    \/ ResetJourneyCall
    \/ TickRestart
    \/ FrameRestart
    \/ TimerRestart

SpecRestart == RestartInit /\ [][NextRestart]_vars

\* C19: in the delta-time and the timer-stepped class a call of
\* startJourneyAnimation made while isAnimating is true changes nothing:
\* scene, markers, dig path, traveller, progress, camera, controls, status and
\* the pending timers and frame requests are what they were before the call.
C19_GuardedRestart ==
    [][(calls' = calls + 1 /\ lastCall'.op = "startJourneyAnimation"
            /\ viz.isAnimating) => viz' = viz]_vars

\* a second call arrived while the timer chain of a journey was under way
C19_Witness ==
    /\ calls = 2
    /\ lastCall.op = "startJourneyAnimation"
    /\ IsTimerStepped(viz)
    /\ viz.isAnimating
    /\ \E i \in DOMAIN viz.timers :
           /\ viz.timers[i].cb.fn = "animateDigging"
           /\ viz.timers[i].cb.pathIndex > 1

(***************************************************************************)
(* Timer-stepped variant: journeys that are not reset, with the clock,     *)
(* the timers and the animation frames of the browser always served        *)
(***************************************************************************)
JourneyInitTS ==
    /\ PageInit
    /\ GeoIdle
    /\ viz = TSInit
    /\ lastCall = [op |-> "none"]
    /\ calls = 0

NextJourneyTS ==
    \/ \E a \in JourneyArgs : StartJourneyCall(a)
    \/ TickRestart
    \/ FrameRestart
    \/ TimerRestart

FairJourneyTS ==
    /\ JourneyInitTS
    /\ [][NextJourneyTS]_vars
    /\ WF_vars(TickRestart)
    /\ WF_vars(FrameRestart)
    /\ WF_vars(TimerRestart)

\* the path indices at which a traveller mesh of the scene stands
TravellerAt(w) == {o.at : o \in {m \in w.scene : m.kind = "traveller"}}

\* C21: a journey of the timer-stepped class that is not reset puts the
\* traveller on the path points in order, one point per timer step, from
\* index 0 to the last index; the progress written is non-decreasing while
\* the journey runs and ends at 100; the journey ends with the traveller
\* removed from the scene and isAnimating false, and every started journey
\* ends.
C21_TimerJourney ==
    /\ [][UNCHANGED callVars =>
              /\ viz'.statusProgress >= viz.statusProgress
              /\ \A i \in TravellerAt(viz') :
                     i \in TravellerAt(viz) \/ i - 1 \in TravellerAt(viz)
              /\ (viz.isAnimating /\ ~viz'.isAnimating) =>
                     /\ TravellerAt(viz) = {PathPointsTS - 1}
                     /\ TravellerAt(viz') = {}
                     /\ viz'.statusProgress = 100]_vars
    /\ [](viz.isAnimating => TravellerAt(viz) \subseteq 0 .. PathPointsTS - 1)
    /\ (viz.isAnimating ~> ~viz.isAnimating)

\* a journey has run to its end
C21_Witness ==
    /\ calls >= 1
    /\ ~viz.isAnimating
    /\ viz.statusMessage = "Arrived at your antipodal point!"
    /\ viz.statusProgress = 100
    /\ viz.digLine # Null
    /\ TravellerAt(viz) = {}

(***************************************************************************)
(* Timer-stepped variant: startJourneyAnimation and reset interleaved      *)
(* (checked under SpecRestart)                                             *)
(***************************************************************************)
\* animateDigging chains that hold a timer (the completion timer included)
DiggingChains(w) ==
    Cardinality({i \in DOMAIN w.timers :
                    w.timers[i].cb.fn \in {"animateDigging", "arrive"}})

\* C22: in the timer-stepped class at most one animateDigging timer chain is
\* scheduled at any time, and isAnimating is false only when no chain is
\* scheduled.
C22_SingleChain ==
    IsTimerStepped(viz) =>
        /\ DiggingChains(viz) <= 1
        /\ ~viz.isAnimating => DiggingChains(viz) = 0

(***************************************************************************)
(* Delta-time variant: the 'change' listeners setMarkerPosition registers  *)
(* on the orbit controls                                                   *)
(***************************************************************************)
\* setMarkerPosition calls one run makes
MaxMarkerCalls == 4

\* this.controls.addEventListener('change', listener)
addEventListener(w, listener) ==
    [w EXCEPT !.changeListeners = Append(@, listener)]

\* setMarkerPosition(markerID, lat, lng, false) with the listeners of the
\* halo and of the label; nothing in the class removes a listener
setMarkerPositionWithListeners(w, markerID, lat, lng) ==
    LET placed == setMarkerPosition(w, markerID, lat, lng)
        uid == placed.markerGroups[markerID].uid
        halo == addEventListener(
                    placed, [fn |-> "updateHaloOrientation",
                             markerID |-> markerID, uid |-> uid])
    IN  addEventListener(halo, [fn |-> "updateLabelOrientation",
                                markerID |-> markerID, uid |-> uid])

ListenersInit ==
    /\ PageInit
    /\ GeoIdle
    /\ viz = [changeListeners |-> <<>>] @@ VizInit
    /\ lastCall = [op |-> "none"]
    /\ calls = 0

PlaceListeningMarkerCall(markerID, c) ==
    /\ calls < MaxMarkerCalls
    /\ calls' = calls + 1
    /\ lastCall' = [op |-> "setMarkerPosition", markerID |-> markerID]
    /\ viz' = setMarkerPositionWithListeners(viz, markerID, c.lat, c.lng)
    /\ UNCHANGED <<geoVars, appVars>>

NextListeners ==
    \E markerID \in MarkerIds, c \in DTCoords :
        PlaceListeningMarkerCall(markerID, c)

SpecListeners == ListenersInit /\ [][NextListeners]_vars

\* C26: after any sequence of setMarkerPosition calls the 'change' listeners
\* registered on the orbit controls number at most two for each marker
\* currently registered.
C26_ListenersReleased ==
    Len(viz.changeListeners)
        <= 2 * Cardinality({id \in MarkerIds : viz.markerGroups[id] # Null})

(***************************************************************************)
(* The dig path: drawDigPath called with coordinates, in any order with    *)
(* startJourneyAnimation and reset (delta-time and timer-stepped class)    *)
(***************************************************************************)
\* createPathMesh: the group built from the points is stored and added
createPathMesh(w, a) ==
    LET pathGroup == [uid |-> FreshUid(w), kind |-> "path",
                      start |-> a.start, end |-> a.end]
    IN  [w EXCEPT !.digLine = pathGroup, !.scene = @ \cup {pathGroup}]

drawDigPathKeepOld(w, a) ==
    LET curved == [w EXCEPT !.digPath = [start |-> a.start, end |-> a.end]]
    IN  createPathMesh([curved EXCEPT !.digLine = Null], a)

\* drawDigPath(startLat, startLng, endLat, endLng) of the delta-time class
drawDigPath(w, a) ==
    LET removed == [w EXCEPT !.scene = @ \ {w.digLine}, !.digLine = Null]
        curved == [removed EXCEPT !.digPath = [start |-> a.start,
                                               end |-> a.end]]
    IN  createPathMesh(curved, a)

DrawDigPathCall(a) ==
    /\ calls < MaxStarts
    /\ calls' = calls + 1
    /\ lastCall' = [op |-> "drawDigPath", replaced |-> viz.digLine # Null]
    /\ viz' = IF IsTimerStepped(viz)
              THEN drawDigPathTS(viz, a)
              ELSE drawDigPath(viz, a)
    /\ UNCHANGED <<geoVars, appVars>>

NextPath ==
    \/ \E a \in JourneyArgs : DrawDigPathCall(a)
    \/ \E a \in JourneyArgs : StartJourneyCall(a)
    \/ ResetJourneyCall
    \/ TickRestart
    \/ FrameRestart
    \/ TimerRestart

SpecPath == RestartInit /\ [][NextPath]_vars

\* the dig-path groups in the scene
ScenePaths(w) == {o \in w.scene : o.kind = "path"}

\* C28: after any sequence of drawDigPath, startJourneyAnimation and reset
\* calls the scene holds at most one dig-path group, and it is the group
\* digLine refers to (none when digLine is null).
C28_OnePath ==
    /\ Cardinality(ScenePaths(viz)) <= 1
    /\ ScenePaths(viz) = IF viz.digLine = Null THEN {} ELSE {viz.digLine}

\* a path was drawn over an existing one, in the delta-time class
C28_Witness ==
    /\ IsDeltaTime(viz)
    /\ lastCall.op = "drawDigPath"
    /\ lastCall.replaced
    /\ viz.digLine # Null
    /\ viz.digLine.start = LatLng(0, Deg(90))

(***************************************************************************)
(* app.js: debounce(func, wait).  viz holds the closure of one debounced   *)
(* function: its timeout variable, the browser's timers and the calls of   *)
(* func made so far; sinceCall is the time since the latest call of the    *)
(* debounced function, saturated at Wait.                                  *)
(***************************************************************************)
\* debounce(..., 300)
Wait == 300

\* the clock's step and the number of calls of the debounced function
DebounceTickMs == 100

MaxDebounceCalls == 4

\* this and arguments of a call
DebounceCalls ==
    {[context |-> "focus-start", args |-> <<"click-1">>],
     [context |-> "focus-start", args |-> <<"click-2">>]}

\* clearTimeout(id); an id that names no pending timer is ignored
clearTimeout(w, id) ==
    [w EXCEPT !.timers = SelectSeq(@, LAMBDA t : t.cb.id # id)]

\* the function debounce returns, without the clearTimeout
debouncedNoClear(w, context, args) ==
    LET id == w.nextTimerId
    IN  setTimeout([w EXCEPT !.timeout = id, !.nextTimerId = @ + 1],
                   [fn |-> "apply", id |-> id, context |-> context,
                    args |-> args],
                   Wait)

\* the function debounce returns
debounced(w, context, args) ==
    LET cleared == clearTimeout(w, w.timeout)
        id == cleared.nextTimerId
    IN  setTimeout([cleared EXCEPT !.timeout = id, !.nextTimerId = @ + 1],
                   [fn |-> "apply", id |-> id, context |-> context,
                    args |-> args],
                   Wait)

\* () => func.apply(context, args)
applyFunc(w, cb) ==
    [w EXCEPT !.invoked = Append(@, [context |-> cb.context, args |-> cb.args])]

DebounceInit ==
    /\ PageInit
    /\ GeoIdle
    /\ viz = [timeout |-> 0, nextTimerId |-> 1, invoked |-> <<>>,
              sinceCall |-> 0, rafs |-> <<>>, timers |-> <<>>]
    /\ lastCall = [op |-> "none"]
    /\ calls = 0

DebouncedCall(c) ==
    /\ calls < MaxDebounceCalls
    /\ calls' = calls + 1
    /\ lastCall' = [op |-> "debounced", context |-> c.context, args |-> c.args]
    /\ viz' = [debounced(viz, c.context, c.args) EXCEPT !.sinceCall = 0]
    /\ UNCHANGED <<geoVars, appVars>>

TickDebounce ==
    /\ ClockMatters(viz)
    /\ viz' = [AdvanceClock(viz, DebounceTickMs) EXCEPT
                  !.sinceCall = Min(@ + DebounceTickMs, Wait)]
    /\ UNCHANGED <<geoVars, appVars, callVars>>

TimerDebounce ==
    /\ viz.timers # <<>>
    /\ Head(viz.timers).due = 0
    /\ viz' = applyFunc([viz EXCEPT !.timers = Tail(@)], Head(viz.timers).cb)
    /\ UNCHANGED <<geoVars, appVars, callVars>>

NextDebounce ==
    \/ \E c \in DebounceCalls : DebouncedCall(c)
    \/ TickDebounce
    \/ TimerDebounce

FairDebounce ==
    /\ DebounceInit
    /\ [][NextDebounce]_vars
    /\ WF_vars(TickDebounce)
    /\ WF_vars(TimerDebounce)

\* C29: func is invoked only when Wait ms have passed since the latest call
\* of the debounced function, with that call's this and arguments; at most
\* one timer is pending at any time, it belongs to the latest call, and an
\* invocation uses it up, so a burst of calls less than Wait apart gives one
\* invocation, after its last call; every call is followed by an invocation.
C29_Debounce ==
    /\ [](Len(viz.timers) <= 1)
    /\ [](viz.timers # <<>> =>
              /\ viz.timers[1].cb.id = viz.timeout
              /\ viz.timers[1].cb.context = lastCall.context
              /\ viz.timers[1].cb.args = lastCall.args
              /\ viz.timers[1].due = Wait - viz.sinceCall)
    /\ [][viz'.invoked # viz.invoked =>
              /\ UNCHANGED callVars
              /\ viz.sinceCall >= Wait
              /\ viz'.invoked = Append(viz.invoked,
                                       [context |-> lastCall.context,
                                        args |-> lastCall.args])
              /\ viz.timers # <<>>
              /\ viz'.timers = <<>>]_vars
    /\ [][calls' # calls => Len(viz'.timers) = 1]_vars
    /\ (viz.timers # <<>> ~> viz.timers = <<>>)

\* a burst of three calls 100 ms and 200 ms apart has been served once, with
\* the arguments of its last call
C29_Witness ==
    /\ calls = 3
    /\ viz.nextTimerId = 4
    /\ viz.invoked = <<[context |-> "focus-start", args |-> <<"click-2">>]>>
    /\ viz.timers = <<>>

(***************************************************************************)
(* loadTextures: one URL list per texture key, tried in list order         *)
(* (delta-time class of earth-visualization.js and the first class of      *)
(* test.js).  viz holds the promise, this.textures, the closure variable   *)
(* loadedCount and, per key, the URL whose load is in progress.            *)
(***************************************************************************)
\* number of URLs of each key of textureURLs
textureURLs(file) ==
    IF file = "earth-visualization.js"
    THEN [earthMap |-> 4, earthBumpMap |-> 3, earthSpecMap |-> 3,
          cloudsMap |-> 4]
    ELSE [earthMap |-> 3, earthBumpMap |-> 2, earthSpecularMap |-> 2,
          cloudsMap |-> 3]

TextureKeys(w) == DOMAIN textureURLs(w.file)

\* Object.keys(textureURLs).length
totalTextures(w) == Cardinality(TextureKeys(w))

CanvasTexture == [canvas |-> TRUE]

\* createFallbackTextures: a canvas texture for every key that has none
createFallbackTextures(w) ==
    [w EXCEPT !.textures =
        [key \in DOMAIN w.textures |->
            IF w.textures[key] = Null THEN CanvasTexture
            ELSE w.textures[key]]]

\* resolve(): only the first call settles the promise
resolve(w) ==
    [w EXCEPT !.resolveCalls = @ + 1,
              !.promise = IF @ = "pending" THEN "resolved" ELSE @]

\* loadedCount++ and the test that follows it
countLoaded(w) ==
    LET counted == [w EXCEPT !.loadedCount = @ + 1]
    IN  IF counted.loadedCount = totalTextures(counted) THEN resolve(counted)
        ELSE counted

\* tryLoadingTexture that never counts a key whose list is exhausted
tryLoadingTextureNoCount(w, key, urlIndex) ==
    IF urlIndex >= textureURLs(w.file)[key]
    THEN [w EXCEPT !.loading[key] = -1,
                   !.textures[key] = CanvasTexture]
    ELSE [w EXCEPT !.loading[key] = urlIndex,
                   !.tried[key] = Append(@, urlIndex)]

\* tryLoadingTexture(key, urlIndex): past the end of the list the fallback
\* stands (test.js creates it here) and the key counts as loaded; otherwise
\* textureLoader.load starts
tryLoadingTexture(w, key, urlIndex) ==
    IF urlIndex >= textureURLs(w.file)[key]
    THEN countLoaded([w EXCEPT !.loading[key] = -1,
                               !.textures[key] =
                                   IF w.file = "test.js" THEN CanvasTexture
                                   ELSE @])
    ELSE [w EXCEPT !.loading[key] = urlIndex,
                   !.tried[key] = Append(@, urlIndex)]

RECURSIVE tryLoadingAll(_, _)
\* for (const key of Object.keys(...)) tryLoadingTexture(key)
tryLoadingAll(w, keys) ==
    IF keys = {} THEN w
    ELSE LET key == CHOOSE k \in keys : TRUE
         IN  tryLoadingAll(tryLoadingTexture(w, key, 0), keys \ {key})

\* the promise executor; without THREE the try block throws, test.js
\* rejects and earth-visualization.js throws again in its catch block
\* (createFallbackTextures needs THREE and this.textures)
loadTextures(w, three) ==
    IF ~three THEN [w EXCEPT !.called = TRUE, !.promise = "rejected"]
    ELSE LET placeholders ==
                 [w EXCEPT !.called = TRUE,
                           !.textures = [key \in TextureKeys(w) |-> Null],
                           !.loading = [key \in TextureKeys(w) |-> -1],
                           !.tried = [key \in TextureKeys(w) |-> <<>>],
                           !.failed = [key \in TextureKeys(w) |-> {}]]
             ready == IF w.file = "earth-visualization.js"
                      THEN createFallbackTextures(placeholders)
                      ELSE placeholders
         IN  tryLoadingAll(ready, TextureKeys(w))

TexturesInit ==
    /\ PageInit
    /\ GeoIdle
    /\ \E file \in {"earth-visualization.js", "test.js"} :
           viz = [file |-> file, called |-> FALSE, three |-> TRUE,
                  promise |-> "pending", resolveCalls |-> 0, loadedCount |-> 0,
                  textures |-> <<>>, loading |-> <<>>, tried |-> <<>>,
                  failed |-> <<>>]
    /\ lastCall = Null
    /\ calls = 0

LoadTexturesCall(three) ==
    /\ ~viz.called
    /\ viz' = [loadTextures(viz, three) EXCEPT !.three = three]
    /\ UNCHANGED <<geoVars, appVars, callVars>>

\* onLoad callback of textureLoader.load
TextureLoaded(key) ==
    /\ viz.called /\ viz.three
    /\ viz.loading[key] >= 0
    /\ viz' = countLoaded(
                  [viz EXCEPT !.textures[key] =
                                  [key |-> key, url |-> viz.loading[key]],
                              !.loading[key] = -1])
    /\ UNCHANGED <<geoVars, appVars, callVars>>

\* onError callback of textureLoader.load
TextureFailed(key) ==
    /\ viz.called /\ viz.three
    /\ viz.loading[key] >= 0
    /\ viz' = tryLoadingTexture(
                  [viz EXCEPT !.failed[key] = @ \cup {viz.loading[key]}],
                  key, viz.loading[key] + 1)
    /\ UNCHANGED <<geoVars, appVars, callVars>>

AllTextureKeys ==
    DOMAIN textureURLs("earth-visualization.js") \cup DOMAIN textureURLs("test.js")

NextTextures ==
    \/ \E three \in BOOLEAN : LoadTexturesCall(three)
    \/ \E key \in AllTextureKeys :
           key \in DOMAIN viz.loading /\ TextureLoaded(key)
    \/ \E key \in AllTextureKeys :
           key \in DOMAIN viz.loading /\ TextureFailed(key)

\* loadTextures is called by the constructor, and every load the loader
\* starts reports success or failure
FairTextures ==
    /\ TexturesInit
    /\ [][NextTextures]_vars
    /\ WF_vars(\E three \in BOOLEAN : LoadTexturesCall(three))
    /\ WF_vars(\E key \in AllTextureKeys :
                   key \in DOMAIN viz.loading
                       /\ (TextureLoaded(key) \/ TextureFailed(key)))

\* the key is settled: loaded from one of its URLs, or its list is used up
KeySettled(w, key) ==
    /\ w.loading[key] = -1
    /\ \/ "url" \in DOMAIN w.textures[key]
       \/ w.failed[key] = 0 .. (textureURLs(w.file)[key] - 1)

\* C32: with THREE present the promise of loadTextures is never rejected
\* and resolve is called at most once; the URLs of a key are tried in list
\* order, one at a time, the next only when the one before has failed; the
\* promise is resolved only when every key has loaded or used up its list,
\* and then every key holds a texture; and the promise is resolved in the
\* end
C32_LoadTextures ==
    /\ []((viz.called /\ viz.three) =>
              /\ viz.promise # "rejected"
              /\ viz.resolveCalls <= 1
              /\ \A key \in TextureKeys(viz) :
                     /\ \A i \in 1 .. Len(viz.tried[key]) :
                            viz.tried[key][i] = i - 1
                     /\ \A i \in 1 .. Len(viz.tried[key]) :
                            (i - 1) \in viz.failed[key]
                                \/ (i = Len(viz.tried[key])
                                       /\ (viz.loading[key] = i - 1
                                              \/ "url" \in
                                                   DOMAIN viz.textures[key]))
              /\ (viz.promise = "resolved" =>
                      \A key \in TextureKeys(viz) :
                          KeySettled(viz, key) /\ viz.textures[key] # Null))
    /\ [][(viz.called /\ viz.three) =>
              \A key \in TextureKeys(viz) :
                  Len(viz'.tried[key]) > Len(viz.tried[key]) =>
                      /\ Len(viz'.tried[key]) = Len(viz.tried[key]) + 1
                      /\ viz.loading[key] = Len(viz.tried[key]) - 1
                      /\ viz.loading[key] \in viz'.failed[key]]_vars
    /\ <>(viz.called /\ (viz.three => (viz.promise = "resolved"
                                          /\ viz.resolveCalls = 1)))

\* a key loaded from its second URL after the first failed, another key used
\* up its list, and the promise is resolved
C32_Witness ==
    /\ viz.called /\ viz.three
    /\ viz.promise = "resolved"
    /\ \E key \in TextureKeys(viz) :
           /\ "url" \in DOMAIN viz.textures[key]
           /\ viz.textures[key].url = 1
    /\ \E key \in TextureKeys(viz) :
           /\ viz.textures[key] = CanvasTexture
           /\ Len(viz.tried[key]) = textureURLs(viz.file)[key]

(***************************************************************************)
(* Page load: the DOMContentLoaded handlers of app.js and of               *)
(* earth-visualization.js.  viz holds the page: the class file in use      *)
(* (its fallback handler creates the global instance at once in the        *)
(* frame-counted file, from a 200 ms timer in the delta-time file), what   *)
(* loaded, the handlers run so far, the instances constructed,             *)
(* window.earthVisualizer and the timer queue.                             *)
(*                                                                         *)
(* A browser calls the listener app.js put on document before the          *)
(* listener earth-visualization.js put on window; the model leaves the     *)
(* order open and records it in viz.ran.  Both run in one dispatch, so no  *)
(* timer runs between them.                                                *)
(***************************************************************************)
\* page loads of one behaviour
MaxLoads == 3

\* the clock advances in steps of LoadTickMs
LoadTickMs == 50

\* setTimeout(..., 200)
FallbackDelay == 200

Handlers == {"app.js", "earth-visualization.js"}

\* the page when its scripts have run and DOMContentLoaded is due
LoadedPage(file, three, webgl, loads) ==
    [file |-> file, three |-> three, webgl |-> webgl, loads |-> loads,
     ran |-> <<>>, constructed |-> <<>>, earthVisualizer |-> Null,
     timers |-> <<>>]

\* new EarthVisualizer(...) called by the script named by
construct(w, by) ==
    [w EXCEPT !.constructed = Append(@, by)]

\* the instance constructed last
LastInstance(w) == [instance |-> Len(w.constructed)]

\* the fallback: if (container && !window.earthVisualizer) ...
createGlobalInstance(w) ==
    IF w.earthVisualizer = Null
    THEN LET made == construct(w, "earth-visualization.js")
         IN  [made EXCEPT !.earthVisualizer = LastInstance(made)]
    ELSE w

\* app.js handler that keeps its instance to itself
appHandlerNoGlobal(w) ==
    [construct(w, "app.js") EXCEPT !.ran = Append(@, "app.js")]

\* app.js handler: new EarthVisualizer(earthContainer) and
\* window.earthVisualizer = earthVisualization
appHandler(w) ==
    LET made == construct(w, "app.js")
    IN  [made EXCEPT !.earthVisualizer = LastInstance(made),
                     !.ran = Append(@, "app.js")]

\* earth-visualization.js handler: returns early without THREE (the
\* delta-time file also without WebGL), then creates the global instance at
\* once (frame-counted file) or sets the timer (delta-time file)
fallbackHandler(w) ==
    LET done == [w EXCEPT !.ran = Append(@, "earth-visualization.js")]
    IN  IF w.file = "frame-counted"
        THEN IF ~w.three THEN done ELSE createGlobalInstance(done)
        ELSE IF ~w.webgl \/ ~w.three THEN done
             ELSE [done EXCEPT !.timers =
                       Append(@, [delay |-> FallbackDelay,
                                  callback |-> "createGlobalInstance"])]

\* the handlers that have run
Ran(w) == {w.ran[i] : i \in 1 .. Len(w.ran)}

LoadInit ==
    /\ PageInit
    /\ GeoIdle
    /\ \E file \in {"frame-counted", "delta-time"} :
           \E three \in BOOLEAN : \E webgl \in BOOLEAN :
               viz = LoadedPage(file, three, webgl, 1)
    /\ lastCall = Null
    /\ calls = 0

AppDOMContentLoaded ==
    /\ "app.js" \notin Ran(viz)
    /\ viz' = appHandler(viz)
    /\ UNCHANGED <<geoVars, appVars, callVars>>

FallbackDOMContentLoaded ==
    /\ "earth-visualization.js" \notin Ran(viz)
    /\ viz' = fallbackHandler(viz)
    /\ UNCHANGED <<geoVars, appVars, callVars>>

\* time passes once the dispatch of DOMContentLoaded is over
TickLoad ==
    /\ Ran(viz) = Handlers
    /\ viz.timers # <<>>
    /\ \A i \in 1 .. Len(viz.timers) : viz.timers[i].delay > 0
    /\ viz' = [viz EXCEPT !.timers =
                   [i \in 1 .. Len(viz.timers) |->
                       [viz.timers[i] EXCEPT !.delay =
                           IF @ > LoadTickMs THEN @ - LoadTickMs ELSE 0]]]
    /\ UNCHANGED <<geoVars, appVars, callVars>>

\* the 200 ms timer of the fallback runs
TimerLoad ==
    /\ Ran(viz) = Handlers
    /\ viz.timers # <<>>
    /\ Head(viz.timers).delay = 0
    /\ viz' = createGlobalInstance([viz EXCEPT !.timers = Tail(@)])
    /\ UNCHANGED <<geoVars, appVars, callVars>>

\* location.reload() or the browser's reload button: a new page load
Reload(three, webgl) ==
    /\ viz.loads < MaxLoads
    /\ viz' = LoadedPage(viz.file, three, webgl, viz.loads + 1)
    /\ UNCHANGED <<geoVars, appVars, callVars>>

NextLoad ==
    \/ AppDOMContentLoaded
    \/ FallbackDOMContentLoaded
    \/ TickLoad
    \/ TimerLoad
    \/ \E three \in BOOLEAN : \E webgl \in BOOLEAN : Reload(three, webgl)

SpecLoad == LoadInit /\ [][NextLoad]_vars

\* THREE.js and WebGL are there
LoadsNormally(w) == w.three /\ w.webgl

\* both handlers have run and no timer is left
LoadSettled(w) == Ran(w) = Handlers /\ w.timers = <<>>

\* one instance, never two, in this page load
OneInstance(w) ==
    /\ Len(w.constructed) <= 1
    /\ ("app.js" \in Ran(w) => Len(w.constructed) = 1)
    /\ (LoadSettled(w) => Len(w.constructed) = 1)

====
